---- MODULE Spec2Model ----
\* District assignment (openstadt/commands.py) and equity analytics
\* (openstadt/api/routes.py) of OpenStadt, over the tables of
\* openstadt/api/models.py.
\*
\* Nullable columns are modelled as options: None is SQL NULL / Python None,
\* Some(v) is the value v.  Coordinates are integers (degrees on a small
\* grid); every comparison the code makes on floats is made here on exact
\* rationals by cross-multiplication.
EXTENDS Integers, Sequences, FiniteSets, TLC

\* cities, layers, districts, pois: the tables of the database.  out: what the
\* latest operation returned or printed.  run: the assign-districts process
\* between its queries and its commit (its session's objects and its place in
\* the loop); idle in every specification but SpecRun.  sessions is the
\* user_sessions table, empty in every specification but SpecSessions.
VARIABLES cities, layers, districts, pois, out, run, sessions

vars == <<cities, layers, districts, pois, out, run, sessions>>

None == <<>>
Some(v) == <<v>>

\* No assign-districts process is between its queries and its commit
NoRun == [phase |-> "idle", slug |-> "", cityId |-> 0, cand |-> <<>>, k |-> 0,
          scans |-> <<>>, before |-> <<>>, seen |-> 0]

\* ------------------------------------------------------------------
\* Bounds of the model
\* ------------------------------------------------------------------
MaxDistricts == 2
MaxPois == 2
GridMax == 2
MaxGroupTotal == 30
\* The updates a row of the poi table may have had when a boundary sync starts
MaxStamp == 2
MaxPoiId == 3

\* ------------------------------------------------------------------
\* Sequence helpers
\* ------------------------------------------------------------------
RECURSIVE SumSeq(_)
SumSeq(s) == IF s = <<>> THEN 0 ELSE Head(s) + SumSeq(Tail(s))

Indices(s) == 1..Len(s)

\* The injective sequences of length <= n over the set S
RECURSIVE InjSeqs(_, _)
InjSeqs(S, n) ==
    IF n = 0 THEN {<<>>}
    ELSE LET shorter == InjSeqs(S, n - 1)
         IN shorter \cup
            {Append(s, e) : <<s, e>> \in
                {<<s, e>> \in shorter \X S :
                    Len(s) = n - 1 /\ \A i \in Indices(s) : s[i] # e}}

\* All sequences of length <= n over the set S
RECURSIVE SeqsUpTo(_, _)
SeqsUpTo(S, n) ==
    IF n = 0 THEN {<<>>}
    ELSE LET shorter == SeqsUpTo(S, n - 1)
         IN shorter \cup
            {Append(s, e) : <<s, e>> \in {<<s, e>> \in shorter \X S : Len(s) = n - 1}}

\* ------------------------------------------------------------------
\* GeometryKernel: _point_in_polygon
\* ------------------------------------------------------------------
Polygon(ring) == Some([type |-> "Polygon", coordinates |-> <<ring>>])

\* One edge test of the ray cast, vi = coords[i], vj = coords[j]:
\*   ((yi > y) != (yj > y)) and (x < (xj - xi) * (y - yi) / (yj - yi) + xi)
\* The division is exact here: x - xi < num/den is decided by the sign of den.
EdgeCrosses(x, y, vi, vj) ==
    LET xi == vi[1]  yi == vi[2]  xj == vj[1]  yj == vj[2]
        num == (xj - xi) * (y - yi)
        den == yj - yi
    IN  /\ (yi > y) # (yj > y)
        /\ IF den > 0 THEN (x - xi) * den < num ELSE (x - xi) * den > num

\* The loop "j = n - 1; for i in range(n): ...; j = i" (1-based here)
RECURSIVE RayCast(_, _, _, _, _, _)
RayCast(x, y, coords, i, j, inside) ==
    IF i > Len(coords) THEN inside
    ELSE RayCast(x, y, coords, i + 1, i,
                 IF EdgeCrosses(x, y, coords[i], coords[j]) THEN ~inside ELSE inside)

\* Variant: the closing edge (last vertex -> first vertex) is never tested
point_in_polygon_open(x, y, geometry) ==
    IF geometry = None \/ geometry[1].type # "Polygon" THEN FALSE
    ELSE LET coords == geometry[1].coordinates[1]
         IN  IF Len(coords) < 3 THEN FALSE
             ELSE RayCast(x, y, coords, 2, 1, FALSE)

point_in_polygon(x, y, geometry) ==
    IF geometry = None \/ geometry[1].type # "Polygon" THEN FALSE
    ELSE LET coords == geometry[1].coordinates[1]
         IN  IF Len(coords) < 3 THEN FALSE
             ELSE RayCast(x, y, coords, 1, Len(coords), FALSE)

\* ------------------------------------------------------------------
\* Table access (SQLAlchemy queries and relationships)
\* ------------------------------------------------------------------
\* db.select(City).where(City.slug == slug) ... .first()
CityBySlug(slug) ==
    LET hits == SelectSeq(cities, LAMBDA c : c.slug = slug)
    IN  IF hits = <<>> THEN None ELSE Some(Head(hits))

IndexSeq(s) == [i \in 1..Len(s) |-> i]

\* Variant: the relationship forgets the city, every point is a point of it
CityPoisEveryCity(cityId) == IndexSeq(pois)

\* city.pois, city.districts, city.layers: row indices, in table order
CityPois(cityId) == SelectSeq(IndexSeq(pois), LAMBDA i : pois[i].city_id = cityId)
CityDistricts(cityId) ==
    SelectSeq(IndexSeq(districts), LAMBDA i : districts[i].city_id = cityId)
CityLayers(cityId) == SelectSeq(layers, LAMBDA l : l.city_id = cityId)

\* Variant: the query forgets the "geometry IS NOT NULL" filter
DistrictsWithGeometryUnfiltered(cityId) == CityDistricts(cityId)

\* db.select(District).where(District.city_id == city.id,
\*                           District.geometry.isnot(None)).all()
DistrictsWithGeometry(cityId) ==
    SelectSeq(IndexSeq(districts),
              LAMBDA i : districts[i].city_id = cityId /\ districts[i].geometry # None)

Labels == [i \in 1..Len(pois) |-> pois[i].district]

\* Variant: the commit writes every object the loop assigned to, changed or not
UpdatedAlways(poi, label) ==
    [poi EXCEPT !.district = label, !.updated_at = @ + 1]

\* The flush of db.session.commit(): an object whose district differs from the
\* loaded one is written with an UPDATE, which also sets updated_at
\* (onupdate=datetime.now; the model counts the row's updates); an object
\* whose district was set to the value it had is not written
Updated(poi, label) ==
    IF label = poi.district THEN poi
    ELSE [poi EXCEPT !.district = label, !.updated_at = @ + 1]

\* ------------------------------------------------------------------
\* DistrictAssigner: assign_districts
\* ------------------------------------------------------------------
\* Variant: a point no polygon contains falls back to the first candidate
RECURSIVE ScanDistrictsFallback(_, _, _)
ScanDistrictsFallback(poi, cand, k) ==
    IF k > Len(cand)
    THEN [label |-> Some(districts[cand[1]].name), hit |-> cand[1], writes |-> 1]
    ELSE IF point_in_polygon(poi.lng, poi.lat, districts[cand[k]].geometry)
         THEN [label |-> Some(districts[cand[k]].name), hit |-> cand[k], writes |-> 1]
         ELSE ScanDistrictsFallback(poi, cand, k + 1)

\* Variant: the "break" is missing, every containing district writes the label
RECURSIVE ScanDistrictsNoBreak(_, _, _)
ScanDistrictsNoBreak(poi, cand, k) ==
    IF k > Len(cand) THEN [label |-> poi.district, hit |-> 0, writes |-> 0]
    ELSE LET rest == ScanDistrictsNoBreak(poi, cand, k + 1)
         IN  IF point_in_polygon(poi.lng, poi.lat, districts[cand[k]].geometry)
             THEN IF rest.hit # 0 THEN [rest EXCEPT !.writes = @ + 1]
                  ELSE [label |-> Some(districts[cand[k]].name), hit |-> cand[k],
                        writes |-> 1]
             ELSE rest

\* Variant: the label is the district's slug
RECURSIVE ScanDistrictsSlug(_, _, _)
ScanDistrictsSlug(poi, cand, k) ==
    IF k > Len(cand) THEN [label |-> poi.district, hit |-> 0, writes |-> 0]
    ELSE IF point_in_polygon(poi.lng, poi.lat, districts[cand[k]].geometry)
         THEN [label |-> Some(districts[cand[k]].slug), hit |-> cand[k], writes |-> 1]
         ELSE ScanDistrictsSlug(poi, cand, k + 1)

\* Variant: a district whose name the point already carries is skipped
RECURSIVE ScanDistrictsSkipCurrent(_, _, _)
ScanDistrictsSkipCurrent(poi, cand, k) ==
    IF k > Len(cand) THEN [label |-> poi.district, hit |-> 0, writes |-> 0]
    ELSE IF /\ poi.district # Some(districts[cand[k]].name)
            /\ point_in_polygon(poi.lng, poi.lat, districts[cand[k]].geometry)
         THEN [label |-> Some(districts[cand[k]].name), hit |-> cand[k], writes |-> 1]
         ELSE ScanDistrictsSkipCurrent(poi, cand, k + 1)

\* The inner loop over the candidate districts for one poi:
\*   for district in districts:
\*       if _point_in_polygon(poi.lng, poi.lat, district.geometry):
\*           poi.district = district.name; assigned += 1; break
\* label: the poi's label after the loop; hit: the row of the district that
\* matched (0: none); writes: how often poi.district was assigned.
RECURSIVE ScanDistricts(_, _, _)
ScanDistricts(poi, cand, k) ==
    IF k > Len(cand) THEN [label |-> poi.district, hit |-> 0, writes |-> 0]
    ELSE IF point_in_polygon(poi.lng, poi.lat, districts[cand[k]].geometry)
         THEN [label |-> Some(districts[cand[k]].name), hit |-> cand[k], writes |-> 1]
         ELSE ScanDistricts(poi, cand, k + 1)

\* The outer loop "for poi in city.pois": one scan result per row of the poi
\* table, rows of other cities untouched
RECURSIVE ScanPois(_, _, _, _)
ScanPois(cityId, cand, i, scans) ==
    IF i > Len(pois) THEN scans
    ELSE ScanPois(cityId, cand, i + 1,
            Append(scans,
                IF pois[i].city_id = cityId THEN ScanDistricts(pois[i], cand, 1)
                ELSE [label |-> pois[i].district, hit |-> 0, writes |-> 0]))

RECURSIVE Hits(_, _)
Hits(scans, i) ==
    IF i > Len(scans) THEN <<>> ELSE <<scans[i].hit>> \o Hits(scans, i + 1)

RECURSIVE Writes(_, _)
Writes(scans, i) ==
    IF i > Len(scans) THEN <<>> ELSE <<scans[i].writes>> \o Writes(scans, i + 1)

\* What a run leaves behind: the console report (status, assigned), whether
\* db.session.commit() was reached, and for the claims the labels before the
\* run, the matching district row and the number of label writes per poi, and
\* whether the run directly follows a completed run for the same city
AssignOut(slug, status, assigned, committed, hit, writes, rerun) ==
    [op |-> "assign_districts", slug |-> slug, status |-> status,
     assigned |-> assigned, committed |-> committed,
     before |-> Labels, hit |-> hit, writes |-> writes, rerun |-> rerun]

NoPoi == [i \in 1..Len(pois) |-> 0]

assign_districts(city_slug) ==
    \E city \in {CityBySlug(city_slug)} :
        IF city = None
        THEN /\ out' = AssignOut(city_slug, "city_not_found", 0, FALSE, NoPoi, NoPoi, FALSE)
             /\ UNCHANGED <<cities, layers, districts, pois>>
        ELSE
         \E cand \in {DistrictsWithGeometry(city[1].id)} :
             IF cand = <<>>
             THEN /\ out' = AssignOut(city_slug, "no_districts", 0, FALSE, NoPoi, NoPoi,
                                      FALSE)
                  /\ UNCHANGED <<cities, layers, districts, pois>>
             ELSE
              \E scans \in {ScanPois(city[1].id, cand, 1, <<>>)} :
              \E writes \in {Writes(scans, 1)} :
              LET rerun == /\ out.op = "assign_districts"
                           /\ out.status = "done"
                           /\ out.slug = city_slug
              IN  /\ pois' = [i \in 1..Len(pois) |-> Updated(pois[i], scans[i].label)]
                  /\ out' = AssignOut(city_slug, "done", SumSeq(writes), TRUE,
                                      Hits(scans, 1), writes, rerun)
                  /\ UNCHANGED <<cities, layers, districts>>

\* ------------------------------------------------------------------
\* assign_districts step by step, as another process sees it.  The command
\* changes poi.district on the objects of its own session (lines 629-634, no
\* query and so no flush inside the loop) and the database receives the
\* changes in the one transaction that db.session.commit() (line 636) ends.
\* ------------------------------------------------------------------
\* Lines 607-626: the city, the candidate districts and city.pois are loaded
assign_load(city_slug) ==
    /\ run.phase = "idle"
    /\ UNCHANGED <<cities, layers, districts, pois>>
    /\ \E city \in {CityBySlug(city_slug)} :
        IF city = None
        THEN /\ out' = AssignOut(city_slug, "city_not_found", 0, FALSE, NoPoi, NoPoi, FALSE)
             /\ UNCHANGED <<run, sessions>>
        ELSE
         \E cand \in {DistrictsWithGeometry(city[1].id)} :
             IF cand = <<>>
             THEN /\ out' = AssignOut(city_slug, "no_districts", 0, FALSE, NoPoi, NoPoi,
                                      FALSE)
                  /\ UNCHANGED <<run, sessions>>
             ELSE /\ run' = [phase |-> "loop", slug |-> city_slug, cityId |-> city[1].id,
                             cand |-> cand, k |-> 1,
                             scans |-> [i \in 1..Len(pois) |->
                                          [label |-> pois[i].district, hit |-> 0,
                                           writes |-> 0]],
                             before |-> Labels, seen |-> 0]
                  /\ UNCHANGED out

\* Variant: every label is written through to the table as it is set
assign_step_in_place ==
    /\ run.phase = "loop"
    /\ run.k <= Len(CityPois(run.cityId))
    /\ \E i \in {CityPois(run.cityId)[run.k]} :
       \E scan \in {ScanDistricts([pois[i] EXCEPT !.district = run.scans[i].label],
                                  run.cand, 1)} :
          /\ run' = [run EXCEPT !.scans[i] = scan, !.k = @ + 1]
          /\ pois' = [pois EXCEPT ![i].district = scan.label]
    /\ UNCHANGED <<cities, layers, districts, out>>

\* Lines 629-634: one pass of "for poi in city.pois" on the session's object
assign_step ==
    /\ run.phase = "loop"
    /\ run.k <= Len(CityPois(run.cityId))
    /\ \E i \in {CityPois(run.cityId)[run.k]} :
       \E scan \in {ScanDistricts([pois[i] EXCEPT !.district = run.scans[i].label],
                                  run.cand, 1)} :
          run' = [run EXCEPT !.scans[i] = scan, !.k = @ + 1]
    /\ UNCHANGED <<cities, layers, districts, pois, out>>

\* Lines 636-637: the commit writes the changed labels, the count is printed
assign_commit ==
    /\ run.phase = "loop"
    /\ run.k > Len(CityPois(run.cityId))
    /\ pois' = [i \in 1..Len(pois) |->
                   IF run.scans[i].label # run.before[i]
                   THEN Updated(pois[i], run.scans[i].label)
                   ELSE pois[i]]
    /\ \E writes \in {Writes(run.scans, 1)} :
          LET rerun == /\ out.op = "assign_districts"
                       /\ out.status = "done"
                       /\ out.slug = run.slug
          IN  out' = [AssignOut(run.slug, "done", SumSeq(writes), TRUE,
                                Hits(run.scans, 1), writes, rerun)
                         EXCEPT !.before = run.before]
    /\ run' = NoRun
    /\ UNCHANGED <<cities, layers, districts>>

\* ------------------------------------------------------------------
\* EquityAnalyzer: district_analytics
\* ------------------------------------------------------------------
\* Python's round() of the rational num/den (den > 0, num >= 0): to the nearest
\* integer, a tie going to the even one.  On the model's domains the float the
\* code rounds is never a tie unless the rational is, and then it is exact.
RoundHalfEven(num, den) ==
    LET q == num \div den
        r == num % den
    IN  IF 2 * r < den THEN q
        ELSE IF 2 * r > den THEN q + 1
        ELSE IF q % 2 = 0 THEN q ELSE q + 1

\* district_name.lower().replace(" ", "-") on the names of the model
LowerDash(name) ==
    CASE name = "Unbekannt" -> "unbekannt"
      [] name = "Alte Mitte" -> "alte-mitte"
      [] name = "Nord" -> "nord"
      [] name = "Sued" -> "sued"
      [] name = "West" -> "west"
      [] name = "Ost" -> "ost"
      [] name = "Kern" -> "kern"
      [] OTHER -> name

\* {layer.slug: 0 for layer in city.layers}
ZeroCounts(cityId) ==
    LET ls == CityLayers(cityId)
    IN  [s \in {ls[i].slug : i \in 1..Len(ls)} |-> 0]

\* layers = {layer.id: layer for layer in city.layers}; layers.get(poi.layer_id)
LayerById(cityId, layerId) ==
    LET hits == SelectSeq(CityLayers(cityId), LAMBDA l : l.id = layerId)
    IN  IF hits = <<>> THEN None ELSE Some(hits[Len(hits)])

\* district_stats is a dict: here the sequence of its values in insertion order
Find(stats, name) ==
    LET ks == {k \in 1..Len(stats) : stats[k].name = name}
    IN  IF ks = {} THEN 0 ELSE CHOOSE k \in ks : TRUE

Put(stats, entry) ==
    LET k == Find(stats, entry.name)
    IN  IF k = 0 THEN Append(stats, entry) ELSE [stats EXCEPT ![k] = entry]

\* Variant: only districts that have a geometry are seeded
RECURSIVE SeedStatsWithGeometry(_, _, _, _)
SeedStatsWithGeometry(rows, k, zero, stats) ==
    IF k > Len(rows) THEN stats
    ELSE LET d == districts[rows[k]]
         IN  SeedStatsWithGeometry(rows, k + 1, zero,
                 IF d.geometry = None THEN stats
                 ELSE Put(stats, [name |-> d.name, slug |-> d.slug,
                                  population |-> d.population, areaKm2 |-> d.area_km2,
                                  layers |-> zero, total |-> 0]))

\* for district in city.districts: district_stats[district.name] = {...}
RECURSIVE SeedStats(_, _, _, _)
SeedStats(rows, k, zero, stats) ==
    IF k > Len(rows) THEN stats
    ELSE LET d == districts[rows[k]]
         IN  SeedStats(rows, k + 1, zero,
                 Put(stats, [name |-> d.name, slug |-> d.slug,
                             population |-> d.population, areaKm2 |-> d.area_km2,
                             layers |-> zero, total |-> 0]))

\* Variant: "or" is missing, the label is used as it is (None prints as "None")
GroupNameRaw(poi) ==
    IF poi.district = None THEN "None" ELSE poi.district[1]

\* district_name = poi.district or "Unbekannt" (None and "" are both falsy)
GroupName(poi) ==
    IF poi.district = None \/ poi.district = Some("") THEN "Unbekannt"
    ELSE poi.district[1]

\* One pass of the loop body "for poi in city.pois:" of district_analytics
CountPoi(poi, cityId, zero, stats) ==
    LET name == GroupName(poi)
        known == IF Find(stats, name) # 0 THEN stats
                 ELSE Append(stats,
                          [name |-> name, slug |-> LowerDash(name),
                           population |-> None, areaKm2 |-> None,
                           layers |-> zero, total |-> 0])
        at == Find(known, name)
        layer == LayerById(cityId, poi.layer_id)
    IN  IF layer = None THEN known
        ELSE [known EXCEPT ![at].layers[layer[1].slug] = @ + 1,
                           ![at].total = @ + 1]

\* The loop "for poi in city.pois:" over rows[k..].  (The test on Len makes
\* TLC evaluate one pass before it starts the next; it is always true.)
RECURSIVE CountPois(_, _, _, _, _)
CountPois(rows, k, cityId, zero, stats) ==
    IF k > Len(rows) THEN stats
    ELSE LET counted == CountPoi(pois[rows[k]], cityId, zero, stats)
         IN  IF Len(counted) > 0 THEN CountPois(rows, k + 1, cityId, zero, counted)
             ELSE counted

\* Variant: the average is taken without the "if district_stats else 0" guard
CityAverageUnguarded(cityTotal, n) ==
    IF n = 0 THEN [raised |-> TRUE, num |-> 0, den |-> 1]
    ELSE [raised |-> FALSE, num |-> cityTotal, den |-> n]

\* city_avg = city_total / len(district_stats) if district_stats else 0,
\* as the rational num/den
CityAverage(cityTotal, n) ==
    IF n # 0 THEN [raised |-> FALSE, num |-> cityTotal, den |-> n]
    ELSE [raised |-> FALSE, num |-> 0, den |-> 1]

\* Variant: the score is truncated (int()) instead of rounded
EquityScoreTruncated(total, avg) ==
    IF avg.num > 0 THEN (total * avg.den * 100) \div avg.num ELSE 0

\* round((stats["total"] / city_avg) * 100) if city_avg > 0 else 0
EquityScore(total, avg) ==
    IF avg.num > 0 THEN RoundHalfEven(total * avg.den * 100, avg.num) ELSE 0

\* Variant: the density is rounded to a whole number
DensityWhole(total, areaKm2) ==
    IF areaKm2 # None /\ areaKm2[1] # 0 /\ areaKm2[1] > 0
    THEN Some(10 * ((200 * total + areaKm2[1]) \div (2 * areaKm2[1])))
    ELSE None

\* round(stats["total"] / stats["areaKm2"], 1) if areaKm2 is truthy and > 0,
\* else None; the model keeps one decimal as a number of tenths, and an area
\* as a number of hundredths of a km2 (sync-districts stores round(area, 2))
Density(total, areaKm2) ==
    IF areaKm2 # None /\ areaKm2[1] # 0 /\ areaKm2[1] > 0
    THEN Some(RoundHalfEven(1000 * total, areaKm2[1]))
    ELSE None

\* results.sort(key=lambda x: x["equityScore"]): stable, ascending
RECURSIVE InsertByScore(_, _)
InsertByScore(sorted, e) ==
    IF sorted = <<>> THEN <<e>>
    ELSE LET last == sorted[Len(sorted)]
         IN  IF last.equityScore <= e.equityScore THEN Append(sorted, e)
             ELSE Append(InsertByScore(SubSeq(sorted, 1, Len(sorted) - 1), e), last)

\* Variant: the sort is missing, the entries stay in insertion order
SortByScoreNone(items, k, sorted) == items

RECURSIVE SortByScore(_, _, _)
SortByScore(items, k, sorted) ==
    IF k > Len(items) THEN sorted
    ELSE SortByScore(items, k + 1, InsertByScore(sorted, items[k]))

\* for name, stats in district_stats.items(): ... results.append({...})
RECURSIVE DeriveResults(_, _, _, _)
DeriveResults(stats, k, avg, results) ==
    IF k > Len(stats) THEN results
    ELSE DeriveResults(stats, k + 1, avg,
            Append(results,
                [name |-> stats[k].name,
                 slug |-> stats[k].slug,
                 population |-> stats[k].population,
                 areaKm2 |-> stats[k].areaKm2,
                 layers |-> stats[k].layers,
                 total |-> stats[k].total,
                 equityScore |-> EquityScore(stats[k].total, avg),
                 density |-> Density(stats[k].total, stats[k].areaKm2)]))

\* city_total = sum(d["total"] for d in district_stats.values())
RECURSIVE CityTotal(_, _)
CityTotal(stats, k) ==
    IF k > Len(stats) THEN 0 ELSE stats[k].total + CityTotal(stats, k + 1)

StatsOut(slug, status, body) ==
    [op |-> "district_analytics", slug |-> slug, status |-> status, body |-> body]

\* The second half of district_analytics, from the filled district_stats on
DistrictStatsResponse(slug, district_stats) ==
    LET city_total == CityTotal(district_stats, 1)
        city_avg == CityAverage(city_total, Len(district_stats))
    IN  IF city_avg.raised
        THEN StatsOut(slug, 500, [error |-> "ZeroDivisionError"])
        ELSE StatsOut(slug, 200,
                [items |-> SortByScore(DeriveResults(district_stats, 1, city_avg, <<>>),
                                       1, <<>>),
                 summary |->
                    [totalPois |-> city_total,
                     totalDistricts |-> Len(district_stats),
                     cityAverage |-> RoundHalfEven(10 * city_avg.num, city_avg.den)]])

\* Variant: the view writes the group name back to the points it counted
district_analytics_relabelling(slug) ==
    LET city == CityBySlug(slug)
    IN  /\ UNCHANGED <<cities, layers, districts>>
        /\ IF city = None
           THEN /\ out' = StatsOut(slug, 404, [error |-> "City not found"])
                /\ UNCHANGED pois
           ELSE
            LET cityId == city[1].id
                zero == ZeroCounts(cityId)
                seeded == SeedStats(CityDistricts(cityId), 1, zero, <<>>)
            IN  /\ out' = DistrictStatsResponse(slug,
                              CountPois(CityPois(cityId), 1, cityId, zero, seeded))
                /\ pois' = [i \in 1..Len(pois) |->
                               IF pois[i].city_id = cityId
                               THEN [pois[i] EXCEPT !.district = Some(GroupName(pois[i]))]
                               ELSE pois[i]]

district_analytics(slug) ==
    LET city == CityBySlug(slug)
    IN  /\ UNCHANGED <<cities, layers, districts, pois>>
        /\ IF city = None
           THEN out' = StatsOut(slug, 404, [error |-> "City not found"])
           ELSE
            LET cityId == city[1].id
                zero == ZeroCounts(cityId)
                seeded == SeedStats(CityDistricts(cityId), 1, zero, <<>>)
            IN  out' = DistrictStatsResponse(slug,
                           CountPois(CityPois(cityId), 1, cityId, zero, seeded))

\* ------------------------------------------------------------------
\* The tables the commands and views start from
\* ------------------------------------------------------------------
SqA == Polygon(<< <<0, 0>>, <<4, 0>>, <<4, 4>>, <<0, 4>> >>)
Tri == Polygon(<< <<2, 0>>, <<7, 0>>, <<2, 3>>, <<2, 0>> >>)
TwoVertices == Polygon(<< <<0, 0>>, <<4, 4>> >>)

\* District rows as sync-districts stores them (a ring and its area) and as an
\* import outside the commands may (no geometry, too few vertices, an area
\* or a population without a geometry)
DistrictPool ==
    { [name |-> "Nord", slug |-> "nord", geometry |-> SqA,
       population |-> None, area_km2 |-> Some(200)],
      [name |-> "Sued", slug |-> "sued", geometry |-> Tri,
       population |-> Some(1000), area_km2 |-> None],
      [name |-> "West", slug |-> "west", geometry |-> None,
       population |-> None, area_km2 |-> Some(200)],
      [name |-> "Ost", slug |-> "ost", geometry |-> None,
       population |-> None, area_km2 |-> None],
      [name |-> "Kern", slug |-> "kern", geometry |-> TwoVertices,
       population |-> None, area_km2 |-> Some(0)] }

\* (1,1) lies in SqA only, (3,1) in SqA and Tri, (5,1) in Tri only, (6,1) in
\* neither (Tri's slanted edge passes y = 1 at x = 5 1/3).  Labels: none, free
\* text from a CSV, the name of a district, an empty CSV cell.
PoiPool ==
    { [lng |-> 1, lat |-> 1, district |-> None, layer_id |-> 1],
      [lng |-> 3, lat |-> 1, district |-> Some("Alte Mitte"), layer_id |-> 2],
      [lng |-> 5, lat |-> 1, district |-> Some("Nord"), layer_id |-> 1],
      [lng |-> 6, lat |-> 1, district |-> None, layer_id |-> 2],
      [lng |-> 6, lat |-> 1, district |-> Some("Nord"), layer_id |-> 1],
      [lng |-> 6, lat |-> 1, district |-> Some(""), layer_id |-> 2] }

Berlin == [id |-> 1, slug |-> "berlin"]
BerlinLayers == << [id |-> 1, city_id |-> 1, slug |-> "kitas"],
                   [id |-> 2, city_id |-> 1, slug |-> "parks"] >>

DistrictRows(ts, cityId) ==
    [i \in 1..Len(ts) |->
        [id |-> i, city_id |-> cityId, name |-> ts[i].name, slug |-> ts[i].slug,
         geometry |-> ts[i].geometry, population |-> ts[i].population,
         area_km2 |-> ts[i].area_km2]]

PoiRows(ts, cityId) ==
    [i \in 1..Len(ts) |->
        [id |-> i, city_id |-> cityId, layer_id |-> ts[i].layer_id,
         lat |-> ts[i].lat, lng |-> ts[i].lng, district |-> ts[i].district,
         updated_at |-> 0]]

CitySlugs == {"berlin", "mannheim"}

Init ==
    /\ cities = <<Berlin>>
    /\ layers = BerlinLayers
    /\ \E ts \in InjSeqs(DistrictPool, MaxDistricts) : districts = DistrictRows(ts, 1)
    /\ \E ts \in SeqsUpTo(PoiPool, MaxPois) : pois = PoiRows(ts, 1)
    /\ out = [op |-> "none"]
    /\ run = NoRun
    /\ sessions = <<>>

AssignDistricts == \E slug \in CitySlugs : assign_districts(slug) /\ UNCHANGED <<run, sessions>>
DistrictAnalytics == \E slug \in CitySlugs : district_analytics(slug) /\ UNCHANGED <<run, sessions>>

Next == AssignDistricts \/ DistrictAnalytics

Spec == Init /\ [][Next]_vars

\* ------------------------------------------------------------------
\* Rectangles on a grid, for the ray cast alone: every axis-aligned rectangle
\* with even corners in 0..2*GridMax, from every starting vertex, in both
\* orientations, open or closed, against every point of -1..2*GridMax+1
\* ------------------------------------------------------------------
Reverse(s) == [i \in 1..Len(s) |-> s[Len(s) + 1 - i]]
Rotate(s, k) == [i \in 1..Len(s) |-> s[((i - 1 + k) % Len(s)) + 1]]

RectRing(x1, x2, y1, y2, start, clockwise, closed) ==
    LET ccw == << <<x1, y1>>, <<x2, y1>>, <<x2, y2>>, <<x1, y2>> >>
        open == Rotate(IF clockwise THEN Reverse(ccw) ELSE ccw, start)
    IN  IF closed THEN Append(open, open[1]) ELSE open

GridCorners == {2 * a : a \in 0..GridMax}
GridPoints == (0 - 1)..(2 * GridMax + 1)

InitPIP ==
    /\ cities = <<Berlin>>
    /\ layers = BerlinLayers
    /\ \E x1, x2, y1, y2 \in GridCorners, start \in 0..3, cw, closed \in BOOLEAN :
          /\ x1 < x2 /\ y1 < y2
          /\ districts = DistrictRows(
                << [name |-> "Nord", slug |-> "nord",
                    geometry |-> Polygon(RectRing(x1, x2, y1, y2, start, cw, closed)),
                    population |-> None, area_km2 |-> None] >>, 1)
    /\ \E x, y \in GridPoints :
          pois = PoiRows(<< [lng |-> x, lat |-> y, district |-> None,
                             layer_id |-> 1] >>, 1)
    /\ out = [op |-> "none"]
    /\ run = NoRun
    /\ sessions = <<>>

NextPIP == assign_districts("berlin") /\ UNCHANGED <<run, sessions>>

SpecPIP == InitPIP /\ [][NextPIP]_vars

\* ------------------------------------------------------------------
\* Larger cities for the equity score: a pois labelled "Nord" followed by b
\* labelled "Sued", with or without the two District rows of those names
\* ------------------------------------------------------------------
LabelledPois(a, b) ==
    [i \in 1..(a + b) |->
        [lng |-> 6, lat |-> 1, layer_id |-> 1 + (i % 2),
         district |-> IF i <= a THEN Some("Nord") ELSE Some("Sued")]]

NordSued ==
    << [name |-> "Nord", slug |-> "nord", geometry |-> SqA,
        population |-> None, area_km2 |-> Some(200)],
       [name |-> "Sued", slug |-> "sued", geometry |-> Tri,
        population |-> Some(1000), area_km2 |-> None] >>

InitEquity ==
    /\ cities = <<Berlin>>
    /\ layers = BerlinLayers
    /\ \E ts \in {<<>>, NordSued} : districts = DistrictRows(ts, 1)
    /\ \E a, b \in 0..MaxGroupTotal : pois = PoiRows(LabelledPois(a, b), 1)
    /\ out = [op |-> "none"]
    /\ run = NoRun
    /\ sessions = <<>>

NextEquity == DistrictAnalytics

SpecEquity == InitEquity /\ [][NextEquity]_vars

\* ------------------------------------------------------------------
\* Vocabulary of the properties
\* ------------------------------------------------------------------
AssignRan == out.op = "assign_districts"
AssignDone == AssignRan /\ out.status = "done"
StatsRan == out.op = "district_analytics"
StatsOK == StatsRan /\ out.status = 200
CityFound == CityBySlug(out.slug) # None
RunCity == CityBySlug(out.slug)[1].id

CityPoiSet(cityId) == {i \in 1..Len(pois) : pois[i].city_id = cityId}
CityDistrictSet(cityId) == {k \in 1..Len(districts) : districts[k].city_id = cityId}

\* A candidate district: a geometry that is a ring of at least 3 vertices
Usable(g) == g # None /\ g[1].type = "Polygon" /\ Len(g[1].coordinates[1]) >= 3
CandidateRows(cityId) ==
    {k \in CityDistrictSet(cityId) : Usable(districts[k].geometry)}
ContainingRows(i, cityId) ==
    {k \in CandidateRows(cityId) :
        point_in_polygon(pois[i].lng, pois[i].lat, districts[k].geometry)}
MinOf(S) == CHOOSE m \in S : \A x \in S : m <= x

RingOf(k) == districts[k].geometry[1].coordinates[1]

RECURSIVE SumCoord(_, _, _)
SumCoord(ring, c, j) == IF j > Len(ring) THEN 0 ELSE ring[j][c] + SumCoord(ring, c, j + 1)

\* Len(ring)^2 times the squared degree-space distance of poi i to the vertex
\* mean of district k's ring
CentroidDist2(k, i) ==
    LET n == Len(RingOf(k))
        dx == n * pois[i].lng - SumCoord(RingOf(k), 1, 1)
        dy == n * pois[i].lat - SumCoord(RingOf(k), 2, 1)
    IN  dx * dx + dy * dy

Nearer(k1, k2, i) ==
    CentroidDist2(k1, i) * Len(RingOf(k2)) * Len(RingOf(k2))
        < CentroidDist2(k2, i) * Len(RingOf(k1)) * Len(RingOf(k1))

\* The candidate nearest by centroid, the first in table order among equals
NearestRow(i, cityId) ==
    CHOOSE k \in CandidateRows(cityId) :
        \A k2 \in CandidateRows(cityId) :
            /\ k2 < k => Nearer(k, k2, i)
            /\ k2 > k => ~Nearer(k2, k, i)

\* ------------------------------------------------------------------
\* C1
\* ------------------------------------------------------------------
\* C1, as the specification states it: after a run, every point of the city
\* that no candidate polygon contains carries the name of the candidate whose
\* vertex-mean centroid is nearest in degree-space (first in order on a tie).
C1_Original ==
    AssignDone =>
        \A i \in CityPoiSet(RunCity) :
            (CandidateRows(RunCity) # {} /\ ContainingRows(i, RunCity) = {})
                => pois[i].district = Some(districts[NearestRow(i, RunCity)].name)

\* C1, amended: a point of the city that no candidate polygon contains keeps
\* the label it had before the run, is written zero times and matched by no
\* district; the count the run reports is the number of points of the city
\* that at least one candidate polygon contains (there is no fallback).
C1_OutsideKeepsLabel ==
    AssignDone =>
        /\ \A i \in CityPoiSet(RunCity) :
              ContainingRows(i, RunCity) = {}
                  => /\ pois[i].district = out.before[i]
                     /\ out.writes[i] = 0
                     /\ out.hit[i] = 0
        /\ out.assigned =
              Cardinality({i \in CityPoiSet(RunCity) : ContainingRows(i, RunCity) # {}})

C1_Witness ==
    /\ AssignDone
    /\ \E i, j \in CityPoiSet(RunCity) :
          /\ CandidateRows(RunCity) # {}
          /\ ContainingRows(i, RunCity) = {}
          /\ out.before[i] = Some("Alte Mitte") \/ out.before[i] = Some("Nord")
          /\ pois[i].district = out.before[i]
          /\ pois[i].district # Some(districts[NearestRow(i, RunCity)].name)
          /\ ContainingRows(j, RunCity) # {}
          /\ out.assigned = 1

\* ------------------------------------------------------------------
\* C2
\* ------------------------------------------------------------------
\* C2, as the specification states it: after a run with at least one
\* candidate district every point of the city carries the name of a candidate
\* district and its label was written exactly once.
C2_Original ==
    (AssignDone /\ CandidateRows(RunCity) # {}) =>
        \A i \in CityPoiSet(RunCity) :
            /\ \E k \in CandidateRows(RunCity) :
                  pois[i].district = Some(districts[k].name)
            /\ out.writes[i] = 1

\* C2, amended: after a run, every point of the city that at least one
\* candidate polygon contains carries the display name of a candidate district
\* containing it, whatever it carried before, and was written exactly once;
\* every other point of the city was written zero times and carries what it
\* carried before.
C2_ContainedWrittenOnce ==
    AssignDone =>
        \A i \in CityPoiSet(RunCity) :
            IF ContainingRows(i, RunCity) # {}
            THEN /\ \E k \in ContainingRows(i, RunCity) :
                       pois[i].district = Some(districts[k].name)
                 /\ out.writes[i] = 1
            ELSE /\ pois[i].district = out.before[i]
                 /\ out.writes[i] = 0

C2_Witness ==
    /\ AssignDone
    /\ \E i, j \in CityPoiSet(RunCity) :
          /\ Cardinality(ContainingRows(i, RunCity)) = 2
          /\ out.before[i] = Some("Alte Mitte")
          /\ pois[i].district # out.before[i]
          /\ out.writes[i] = 1
          /\ ContainingRows(j, RunCity) = {}
          /\ pois[j].district = None

\* ------------------------------------------------------------------
\* C3
\* ------------------------------------------------------------------
\* C3: a point of the city that some candidate polygon contains is matched by
\* the first row, in table order, of the districts containing it, and carries
\* that row's display name.
C3_FirstMatchWins ==
    AssignDone =>
        \A i \in CityPoiSet(RunCity) :
            ContainingRows(i, RunCity) # {}
                => /\ out.hit[i] = MinOf(ContainingRows(i, RunCity))
                   /\ pois[i].district =
                          Some(districts[MinOf(ContainingRows(i, RunCity))].name)

\* two districts contain the point, the first in table order is not the first
\* by name, and it won
C3_Witness ==
    /\ AssignDone
    /\ \E i \in CityPoiSet(RunCity) :
          /\ Cardinality(ContainingRows(i, RunCity)) = 2
          /\ out.hit[i] = 1
          /\ districts[1].name = "Sued" /\ districts[2].name = "Nord"
          /\ pois[i].district = Some("Sued")
          /\ districts[1].slug # districts[1].name

\* ------------------------------------------------------------------
\* C4
\* ------------------------------------------------------------------
\* C4: a run that directly follows a completed run for the same city (nothing
\* changed in between) leaves every label as the first run left it.
C4_Idempotent ==
    (AssignDone /\ out.rerun) => Labels = out.before

C4_Witness ==
    /\ AssignDone /\ out.rerun
    /\ \E i \in CityPoiSet(RunCity) :
          /\ Cardinality(ContainingRows(i, RunCity)) = 2
          /\ out.writes[i] = 1
    /\ \E j \in CityPoiSet(RunCity) : ContainingRows(j, RunCity) = {}

\* ------------------------------------------------------------------
\* C5
\* ------------------------------------------------------------------
\* C5, as the specification states it: with no candidate district (none whose
\* geometry has at least 3 vertices) the run reports the missing boundaries,
\* assigns nothing, changes no label and does not commit.
C5_Original ==
    (AssignRan /\ CityFound /\ CandidateRows(RunCity) = {}) =>
        /\ out.status = "no_districts"
        /\ out.assigned = 0
        /\ ~out.committed
        /\ Labels = out.before

\* C5, amended: the precondition is "some district of the city has a geometry
\* that is not null".  If none has, the run reports the missing boundaries,
\* assigns nothing, changes no label and does not commit.  If some have but
\* none is a ring of at least 3 vertices, the run completes: it assigns
\* nothing and changes no label, but reports 0 assigned and commits.
C5_NoGeometryNoOp ==
    (AssignRan /\ CityFound /\ CandidateRows(RunCity) = {}) =>
        /\ out.assigned = 0
        /\ Labels = out.before
        /\ IF \A k \in CityDistrictSet(RunCity) : districts[k].geometry = None
           THEN out.status = "no_districts" /\ ~out.committed
           ELSE out.status = "done" /\ out.committed

C5_Witness ==
    /\ AssignRan /\ CityFound
    /\ out.status = "no_districts"
    /\ CityDistrictSet(RunCity) # {}
    /\ \E i \in CityPoiSet(RunCity) : pois[i].district = Some("Nord")

\* ------------------------------------------------------------------
\* C6
\* ------------------------------------------------------------------
ItemsNamed(name) ==
    {e \in 1..Len(out.body.items) : out.body.items[e].name = name}

\* C6, as the specification states it: a district without geometry is never
\* the district a point is matched to, and it has an entry in the
\* district_analytics output whose density is null.
C6_Original ==
    /\ AssignDone =>
          \A i \in CityPoiSet(RunCity) :
              out.hit[i] # 0 => districts[out.hit[i]].geometry # None
    /\ StatsOK =>
          \A k \in CityDistrictSet(RunCity) :
              districts[k].geometry = None
                  => \E e \in ItemsNamed(districts[k].name) :
                         out.body.items[e].density = None

\* C6, amended: a district without geometry is never the district a point is
\* matched to, and it has an entry in the district_analytics output; that
\* entry carries the record's area, and its density is null exactly when that
\* area is null or not positive (the density follows the area, not the
\* geometry; district names are unique within the city here).
C6_NoGeometryNeverMatchedButListed ==
    /\ AssignDone =>
          \A i \in CityPoiSet(RunCity) :
              out.hit[i] # 0 => districts[out.hit[i]].geometry # None
    /\ StatsOK =>
          \A k \in CityDistrictSet(RunCity) :
              districts[k].geometry = None
                  => \E e \in ItemsNamed(districts[k].name) :
                        /\ out.body.items[e].areaKm2 = districts[k].area_km2
                        /\ (out.body.items[e].density = None)
                              <=> IF districts[k].area_km2 = None THEN TRUE
                                  ELSE districts[k].area_km2[1] <= 0

\* a district without geometry and without area is listed with a null density
\* beside a district that points were assigned to
C6_Witness ==
    /\ StatsOK
    /\ \E k, k2 \in CityDistrictSet(RunCity) :
          /\ districts[k].geometry = None
          /\ districts[k].area_km2 = None
          /\ \E e \in ItemsNamed(districts[k].name) :
                out.body.items[e].density = None /\ out.body.items[e].total = 0
          /\ districts[k2].geometry # None
          /\ \E e \in ItemsNamed(districts[k2].name) : out.body.items[e].total = 2

\* ------------------------------------------------------------------
\* C8
\* ------------------------------------------------------------------
\* The label a point is grouped under: an absent (null or empty) label counts
\* as "Unbekannt"
LabelOrUnknown(i) ==
    IF pois[i].district = None \/ pois[i].district = Some("") THEN "Unbekannt"
    ELSE pois[i].district[1]

GroupNames(cityId) ==
    {districts[k].name : k \in CityDistrictSet(cityId)}
        \cup {LabelOrUnknown(i) : i \in CityPoiSet(cityId)}

Abs(x) == IF x < 0 THEN 0 - x ELSE x

\* C8: with T the number of points of the city and n the number of district
\* groups (cityAverage = T / n), every entry's equityScore is 0 when T = 0 and
\* otherwise the integer nearest to total * 100 * n / T (the even one on a
\* tie); two groups with totals 10 and 30 score 50 and 150.
C8_EquityScore ==
    StatsOK =>
        LET items == out.body.items
            T == Cardinality(CityPoiSet(RunCity))
            n == Cardinality(GroupNames(RunCity))
        IN  \A e \in 1..Len(items) :
              /\ T = 0 => items[e].equityScore = 0
              /\ T > 0 =>
                    /\ 2 * Abs(items[e].equityScore * T - items[e].total * 100 * n) <= T
                    /\ 2 * Abs(items[e].equityScore * T - items[e].total * 100 * n) = T
                          => items[e].equityScore % 2 = 0
              /\ (n = 2 /\ T = 40 /\ items[e].total = 10) => items[e].equityScore = 50
              /\ (n = 2 /\ T = 40 /\ items[e].total = 30) => items[e].equityScore = 150

C8_Witness ==
    /\ StatsOK
    /\ Len(out.body.items) = 2
    /\ out.body.items[1].total = 10 /\ out.body.items[1].equityScore = 50
    /\ out.body.items[2].total = 30 /\ out.body.items[2].equityScore = 150
    /\ out.body.summary.cityAverage = 200

\* ------------------------------------------------------------------
\* C9
\* ------------------------------------------------------------------
RECURSIVE SumOver(_, _)
SumOver(f, S) ==
    IF S = {} THEN 0
    ELSE LET x == CHOOSE y \in S : TRUE IN f[x] + SumOver(f, S \ {x})

\* C9: the output has exactly one entry for each name among the city's
\* District names and the labels on its points (an absent label counting as
\* "Unbekannt"); an entry's total is the number of the city's points with that
\* label and the sum of its per-layer counts; the summary total is the number
\* of points of the city.
C9_OneEntryPerName ==
    StatsOK =>
        LET items == out.body.items
        IN  /\ {items[e].name : e \in 1..Len(items)} = GroupNames(RunCity)
            /\ Len(items) = Cardinality(GroupNames(RunCity))
            /\ \A e \in 1..Len(items) :
                  /\ items[e].total =
                        Cardinality({i \in CityPoiSet(RunCity) :
                                        LabelOrUnknown(i) = items[e].name})
                  /\ items[e].total = SumOver(items[e].layers, DOMAIN items[e].layers)
            /\ out.body.summary.totalPois = Cardinality(CityPoiSet(RunCity))

\* a point without label, a point with a district's name and a district
\* without points, in two layers
C9_Witness ==
    /\ StatsOK
    /\ Len(out.body.items) = 3
    /\ \E e \in ItemsNamed("Unbekannt") :
          out.body.items[e].total = 1 /\ out.body.items[e].layers["parks"] = 1
    /\ \E e \in ItemsNamed("Nord") :
          out.body.items[e].total = 1 /\ out.body.items[e].layers["kitas"] = 1
    /\ \E k \in CityDistrictSet(RunCity), e \in 1..Len(out.body.items) :
          out.body.items[e].name = districts[k].name /\ out.body.items[e].total = 0
    /\ \E i \in CityPoiSet(RunCity) : pois[i].district = Some("")

\* ------------------------------------------------------------------
\* C10
\* ------------------------------------------------------------------
\* C10, as the specification states it: a city without points yields, without
\* an error, a city average of 0 and an empty stats list, whether or not the
\* city has District records.
C10_Original ==
    (StatsRan /\ CityFound /\ CityPoiSet(RunCity) = {}) =>
        /\ out.status = 200
        /\ out.body.summary.cityAverage = 0
        /\ out.body.items = <<>>

\* C10, amended: a city without points yields, without an error, a city
\* average of 0 and a stats list with one entry per District record of the
\* city, each with total 0 and equityScore 0; the list is empty exactly when
\* the city has no District records.
C10_NoPointsZeroAverage ==
    (StatsRan /\ CityFound /\ CityPoiSet(RunCity) = {}) =>
        /\ out.status = 200
        /\ out.body.summary.cityAverage = 0
        /\ Len(out.body.items) = Cardinality(CityDistrictSet(RunCity))
        /\ \A e \in 1..Len(out.body.items) :
              /\ out.body.items[e].total = 0
              /\ out.body.items[e].equityScore = 0
              /\ \E k \in CityDistrictSet(RunCity) :
                    districts[k].name = out.body.items[e].name

C10_Witness ==
    /\ StatsOK
    /\ CityPoiSet(RunCity) = {}
    /\ Len(out.body.items) = 2
    /\ out.body.summary.cityAverage = 0

\* ------------------------------------------------------------------
\* C7
\* ------------------------------------------------------------------
Xs(ring) == {ring[j][1] : j \in 1..Len(ring)}
Ys(ring) == {ring[j][2] : j \in 1..Len(ring)}

\* The ring walks the four corners of its bounding box along axis-parallel
\* edges, open (4 vertices) or closed (the first vertex repeated as a fifth)
IsRectRing(ring) ==
    /\ Len(ring) \in {4, 5}
    /\ Len(ring) = 5 => ring[5] = ring[1]
    /\ Cardinality(Xs(ring)) = 2 /\ Cardinality(Ys(ring)) = 2
    /\ {ring[j] : j \in 1..4} = Xs(ring) \X Ys(ring)
    /\ \A j \in 1..4 :
          LET a == ring[j]
              b == ring[(j % 4) + 1]
          IN  (a[1] = b[1]) # (a[2] = b[2])

StrictlyInside(x, y, ring) ==
    /\ \E a, b \in Xs(ring) : a < x /\ x < b
    /\ \E a, b \in Ys(ring) : a < y /\ y < b

StrictlyOutside(x, y, ring) ==
    \/ \A a \in Xs(ring) : x < a
    \/ \A a \in Xs(ring) : x > a
    \/ \A a \in Ys(ring) : y < a
    \/ \A a \in Ys(ring) : y > a

\* C7: for every district whose geometry is an axis-aligned rectangle ring
\* (open or closed, any starting vertex, either orientation) and every point,
\* _point_in_polygon is true if the point is strictly inside the rectangle
\* and false if it is strictly outside.
C7_Rectangles ==
    \A k \in 1..Len(districts), i \in 1..Len(pois) :
        (Usable(districts[k].geometry) /\ IsRectRing(RingOf(k))) =>
            /\ StrictlyInside(pois[i].lng, pois[i].lat, RingOf(k))
                  => point_in_polygon(pois[i].lng, pois[i].lat, districts[k].geometry)
            /\ StrictlyOutside(pois[i].lng, pois[i].lat, RingOf(k))
                  => ~point_in_polygon(pois[i].lng, pois[i].lat, districts[k].geometry)

\* a run matched a point strictly inside a closed clockwise rectangle that
\* does not start at its lower left corner
C7_Witness ==
    /\ AssignDone
    /\ Len(districts) = 1 /\ Len(pois) = 1
    /\ IsRectRing(RingOf(1)) /\ Len(RingOf(1)) = 5
    /\ RingOf(1)[1] = <<4, 2>> /\ RingOf(1)[2] = <<0, 2>>
    /\ StrictlyInside(pois[1].lng, pois[1].lat, RingOf(1))
    /\ out.hit[1] = 1

\* ------------------------------------------------------------------
\* EquityAnalyzer: coverage_analysis and _haversine_distance
\* ------------------------------------------------------------------
DefaultRadius == 500

\* _haversine_distance on the coordinates of the model (whole degrees,
\* latitudes 1 and 2, longitudes up to 5 apart): the float the code returns,
\* rounded up to whole metres.  The code compares the distance with an integer
\* radius only, and dist <= r is the same as ceil(dist) <= r for an integer r.
haversine_distance(lat1, lng1, lat2, lng2) ==
    LET dlng == IF lng2 >= lng1 THEN lng2 - lng1 ELSE lng1 - lng2
        lo == IF lat1 <= lat2 THEN lat1 ELSE lat2
        hi == IF lat1 <= lat2 THEN lat2 ELSE lat1
    IN  CASE lo = 1 /\ hi = 1 ->
                <<0, 111178, 222356, 333534, 444712, 555890>>[dlng + 1]
          [] lo = 1 /\ hi = 2 ->
                <<111195, 157226, 248569, 351517, 458316, 566792>>[dlng + 1]
          [] lo = 2 /\ hi = 2 ->
                <<0, 111128, 222255, 333382, 444509, 555636>>[dlng + 1]

\* request.args: a query parameter is missing (None) or present with a text;
\* the text of "radius" is a decimal integer or something int() rejects
IntText(n) == [kind |-> "int", value |-> n]
BadText == [kind |-> "text", value |-> 0]

\* request.args.get("layer", "playgrounds")
LayerArg(args) == IF args.layer = None THEN "playgrounds" ELSE args.layer[1]

\* Variant: the default radius is 0
RadiusArgZeroDefault(args) ==
    IF args.radius = None THEN 0
    ELSE IF args.radius[1].kind = "int" THEN args.radius[1].value
    ELSE 0

\* request.args.get("radius", 500, type=int): werkzeug returns the default
\* when the parameter is missing and when int() raises ValueError
RadiusArg(args) ==
    IF args.radius = None THEN DefaultRadius
    ELSE IF args.radius[1].kind = "int" THEN args.radius[1].value
    ELSE DefaultRadius

\* Variant: an unknown slug falls back to the first layer of the city
LayerBySlugOrFirst(cityId, layer_slug) ==
    LET hits == SelectSeq(layers, LAMBDA l : l.city_id = cityId /\ l.slug = layer_slug)
        any == SelectSeq(layers, LAMBDA l : l.city_id = cityId)
    IN  IF hits # <<>> THEN Some(Head(hits))
        ELSE IF any # <<>> THEN Some(Head(any)) ELSE None

\* db.select(Layer).where(Layer.city_id == city.id, Layer.slug == layer_slug)
\*   .first()
LayerBySlug(cityId, layer_slug) ==
    LET hits == SelectSeq(layers, LAMBDA l : l.city_id = cityId /\ l.slug = layer_slug)
    IN  IF hits = <<>> THEN None ELSE Some(Head(hits))

\* db.select(POI).where(POI.layer_id == layer.id).all(), and Layer.pois
LayerPois(layerId) ==
    SelectSeq(IndexSeq(pois), LAMBDA i : pois[i].layer_id = layerId)

\* Variant: the comparison is strict
InRadiusStrict(poi, target, radius_m) ==
    haversine_distance(poi.lat, poi.lng, target.lat, target.lng) < radius_m

\* dist = _haversine_distance(poi.lat, poi.lng, target.lat, target.lng);
\* dist <= radius_m
InRadius(poi, target, radius_m) ==
    haversine_distance(poi.lat, poi.lng, target.lat, target.lng) <= radius_m

\* Variant: the "break" is missing, every target in reach counts once more
RECURSIVE CoveredByNoBreak(_, _, _, _)
CoveredByNoBreak(poi, targets, radius_m, k) ==
    IF k > Len(targets) THEN 0
    ELSE (IF InRadius(poi, pois[targets[k]], radius_m) THEN 1 ELSE 0)
            + CoveredByNoBreak(poi, targets, radius_m, k + 1)

\* The loop "for target in pois: ... covered += 1; break": what it adds to
\* the district's covered count for one poi
RECURSIVE CoveredBy(_, _, _, _)
CoveredBy(poi, targets, radius_m, k) ==
    IF k > Len(targets) THEN 0
    ELSE IF InRadius(poi, pois[targets[k]], radius_m) THEN 1
         ELSE CoveredBy(poi, targets, radius_m, k + 1)

\* district_coverage is a dict: here the sequence of its entries in
\* insertion order.  One pass of the loop body "for poi in city.pois:"
CoverPoi(poi, targets, radius_m, cov) ==
    LET district == GroupName(poi)
        ks == {k \in 1..Len(cov) : cov[k].district = district}
        known == IF ks # {} THEN cov
                 ELSE Append(cov, [district |-> district, total |-> 0, covered |-> 0])
        at == CHOOSE k \in 1..Len(known) : known[k].district = district
    IN  [known EXCEPT ![at].total = @ + 1,
                      ![at].covered = @ + CoveredBy(poi, targets, radius_m, 1)]

RECURSIVE CoverPois(_, _, _, _, _)
CoverPois(rows, k, targets, radius_m, cov) ==
    IF k > Len(rows) THEN cov
    ELSE LET counted == CoverPoi(pois[rows[k]], targets, radius_m, cov)
         IN  IF Len(counted) > 0 THEN CoverPois(rows, k + 1, targets, radius_m, counted)
             ELSE counted

\* round((stats["covered"] / stats["total"]) * 100) if stats["total"] > 0 else 0
CoveragePct(covered, total) ==
    IF total > 0 THEN RoundHalfEven(covered * 100, total) ELSE 0

\* for district, stats in district_coverage.items(): coverage_stats.append(...)
RECURSIVE CoverageStats(_, _, _)
CoverageStats(cov, k, stats) ==
    IF k > Len(cov) THEN stats
    ELSE CoverageStats(cov, k + 1,
            Append(stats,
                [district |-> cov[k].district,
                 totalPois |-> cov[k].total,
                 coveredPois |-> cov[k].covered,
                 coveragePct |-> CoveragePct(cov[k].covered, cov[k].total)]))

\* coverage_stats.sort(key=lambda x: x["coveragePct"]): stable, ascending
RECURSIVE InsertByPct(_, _)
InsertByPct(sorted, e) ==
    IF sorted = <<>> THEN <<e>>
    ELSE LET last == sorted[Len(sorted)]
         IN  IF last.coveragePct <= e.coveragePct THEN Append(sorted, e)
             ELSE Append(InsertByPct(SubSeq(sorted, 1, Len(sorted) - 1), e), last)

RECURSIVE SortByPct(_, _, _)
SortByPct(items, k, sorted) ==
    IF k > Len(items) THEN sorted
    ELSE SortByPct(items, k + 1, InsertByPct(sorted, items[k]))

\* coverage_points: one entry per target poi
RECURSIVE CoveragePoints(_, _)
CoveragePoints(targets, k) ==
    IF k > Len(targets) THEN <<>>
    ELSE <<[lat |-> pois[targets[k]].lat, lng |-> pois[targets[k]].lng,
            district |-> pois[targets[k]].district]>>
         \o CoveragePoints(targets, k + 1)

CoverageOut(slug, args, status, body) ==
    [op |-> "coverage_analysis", slug |-> slug, args |-> args,
     status |-> status, body |-> body]

\* The response of coverage_analysis on the tables as they are
CoverageResponse(slug, args) ==
    LET city == CityBySlug(slug)
    IN  IF city = None
        THEN CoverageOut(slug, args, 404, [error |-> "City not found"])
        ELSE
         LET layer_slug == LayerArg(args)
             radius_m == RadiusArg(args)
             layer == LayerBySlug(city[1].id, layer_slug)
         IN  IF layer = None
             THEN CoverageOut(slug, args, 404,
                              [error |-> "Layer not found", layer |-> layer_slug])
             ELSE
              LET targets == LayerPois(layer[1].id)
                  cov == CoverPois(CityPois(city[1].id), 1, targets, radius_m, <<>>)
              IN  CoverageOut(slug, args, 200,
                     [layer |-> layer[1].slug,
                      radiusMeters |-> radius_m,
                      totalFacilities |-> Len(targets),
                      coveragePoints |-> CoveragePoints(targets, 1),
                      districtCoverage |->
                          SortByPct(CoverageStats(cov, 1, <<>>), 1, <<>>)])

coverage_analysis(slug, args) ==
    /\ out' = CoverageResponse(slug, args)
    /\ UNCHANGED <<cities, layers, districts, pois>>

\* ------------------------------------------------------------------
\* EquityAnalyzer: layer_comparison
\* ------------------------------------------------------------------
\* district_counts[d] = district_counts.get(d, 0) + 1 over layer.pois: the
\* dict as the sequence of its entries in insertion order
RECURSIVE DistrictCounts(_, _, _)
DistrictCounts(rows, k, counts) ==
    IF k > Len(rows) THEN counts
    ELSE LET d == GroupName(pois[rows[k]])
             ks == {c \in 1..Len(counts) : counts[c].district = d}
             counted ==
                IF ks = {} THEN Append(counts, [district |-> d, n |-> 1])
                ELSE LET at == CHOOSE c \in ks : TRUE
                     IN  [counts EXCEPT ![at].n = @ + 1]
         IN  IF Len(counted) > 0 THEN DistrictCounts(rows, k + 1, counted)
             ELSE counted

RECURSIVE SumCounts(_, _)
SumCounts(counts, k) ==
    IF k > Len(counts) THEN 0 ELSE counts[k].n + SumCounts(counts, k + 1)

\* max(counts), min(counts)
MaxCount(counts) ==
    LET ns == {counts[k].n : k \in 1..Len(counts)}
    IN  CHOOSE m \in ns : \A n \in ns : n <= m

MinCount(counts) ==
    LET ns == {counts[k].n : k \in 1..Len(counts)}
    IN  CHOOSE m \in ns : \A n \in ns : m <= n

\* Variant: the spread is taken against districts without points (min = 0)
LayerStatSpreadFromZero(layer) ==
    LET rows == LayerPois(layer.id)
        counts == DistrictCounts(rows, 1, <<>>)
        some == counts # <<>>
    IN  [slug |-> layer.slug,
         totalPois |-> Len(rows),
         districtsServed |-> Len(counts),
         avgPerDistrict |->
            IF some THEN RoundHalfEven(10 * SumCounts(counts, 1), Len(counts)) ELSE 0,
         maxInDistrict |-> IF some THEN MaxCount(counts) ELSE 0,
         minInDistrict |-> 0,
         distributionSpread |-> IF some THEN MaxCount(counts) ELSE 0]

\* One pass of "for layer in city.layers:"; avgPerDistrict = round(avg, 1) is
\* kept as a number of tenths
LayerStat(layer) ==
    LET rows == LayerPois(layer.id)
        counts == DistrictCounts(rows, 1, <<>>)
        some == counts # <<>>
    IN  [slug |-> layer.slug,
         totalPois |-> Len(rows),
         districtsServed |-> Len(counts),
         avgPerDistrict |->
            IF some THEN RoundHalfEven(10 * SumCounts(counts, 1), Len(counts)) ELSE 0,
         maxInDistrict |-> IF some THEN MaxCount(counts) ELSE 0,
         minInDistrict |-> IF some THEN MinCount(counts) ELSE 0,
         distributionSpread |->
            IF some THEN MaxCount(counts) - MinCount(counts) ELSE 0]

RECURSIVE Comparison(_, _)
Comparison(ls, k) ==
    IF k > Len(ls) THEN <<>> ELSE <<LayerStat(ls[k])>> \o Comparison(ls, k + 1)

ComparisonOut(slug, status, body) ==
    [op |-> "layer_comparison", slug |-> slug, status |-> status, body |-> body]

\* The response of layer_comparison on the tables as they are
ComparisonResponse(slug) ==
    LET city == CityBySlug(slug)
    IN  IF city = None
        THEN ComparisonOut(slug, 404, [error |-> "City not found"])
        ELSE ComparisonOut(slug, 200,
                           [items |-> Comparison(CityLayers(city[1].id), 1)])

layer_comparison(slug) ==
    /\ out' = ComparisonResponse(slug)
    /\ UNCHANGED <<cities, layers, districts, pois>>

\* ------------------------------------------------------------------
\* The three analytics views on one city: points on a grid of two latitudes
\* and two longitudes, in three layers, with and without labels
\* ------------------------------------------------------------------
ViewLayers == << [id |-> 1, city_id |-> 1, slug |-> "kitas"],
                 [id |-> 2, city_id |-> 1, slug |-> "parks"],
                 [id |-> 3, city_id |-> 1, slug |-> "playgrounds"] >>

\* (1,1) and (2,1) are 111178 m apart, (1,1) and (1,2) 111195 m, (2,1) and
\* (1,2) 157226 m
ViewPoiPool ==
    { [lng |-> 1, lat |-> 1, district |-> Some("Nord"), layer_id |-> 2],
      [lng |-> 1, lat |-> 1, district |-> None, layer_id |-> 1],
      [lng |-> 2, lat |-> 1, district |-> Some("Nord"), layer_id |-> 1],
      [lng |-> 2, lat |-> 1, district |-> Some("Sued"), layer_id |-> 3],
      [lng |-> 1, lat |-> 2, district |-> Some("Nord"), layer_id |-> 1],
      [lng |-> 1, lat |-> 2, district |-> Some(""), layer_id |-> 2],
      [lng |-> 2, lat |-> 2, district |-> Some("Sued"), layer_id |-> 1] }

\* Between the two neighbour distances: reaches one degree of longitude at
\* latitude 1, not one degree of latitude
ReachRadius == 111190

LayerTexts == {None, Some("parks"), Some("trams")}
RadiusTexts == {None, Some(BadText), Some(IntText(0)), Some(IntText(ReachRadius))}
CoverageArgs == [layer : LayerTexts, radius : RadiusTexts]

InitViews ==
    /\ cities = <<Berlin>>
    /\ layers = ViewLayers
    /\ \E ts \in {<<>>, NordSued} : districts = DistrictRows(ts, 1)
    /\ \E ts \in SeqsUpTo(ViewPoiPool, MaxPois) : pois = PoiRows(ts, 1)
    /\ out = [op |-> "none"]
    /\ run = NoRun
    /\ sessions = <<>>

CoverageAnalysis ==
    \E slug \in CitySlugs, args \in CoverageArgs :
        coverage_analysis(slug, args) /\ UNCHANGED <<run, sessions>>
LayerComparison == \E slug \in CitySlugs : layer_comparison(slug) /\ UNCHANGED <<run, sessions>>

NextViews == DistrictAnalytics \/ CoverageAnalysis \/ LayerComparison

SpecViews == InitViews /\ [][NextViews]_vars

\* ------------------------------------------------------------------
\* Vocabulary of the properties of the views
\* ------------------------------------------------------------------
CoverageRan == out.op = "coverage_analysis"
CoverageOK == CoverageRan /\ out.status = 200
ComparisonRan == out.op = "layer_comparison"
ComparisonOK == ComparisonRan /\ out.status = 200
ViewRan == StatsRan \/ CoverageRan \/ ComparisonRan

\* The points of the layer the response names, and the points of the city
\* that carry a label (an absent, null or empty, label is "Unbekannt")
TargetSet ==
    {j \in 1..Len(pois) :
        \E l \in 1..Len(layers) :
            /\ layers[l].city_id = RunCity
            /\ layers[l].slug = out.body.layer
            /\ pois[j].layer_id = layers[l].id}
LabelledSet(name) == {i \in CityPoiSet(RunCity) : LabelOrUnknown(i) = name}

\* Some target-layer point lies within the radius of point i
Reached(i, radius) ==
    \E j \in TargetSet :
        haversine_distance(pois[i].lat, pois[i].lng, pois[j].lat, pois[j].lng) <= radius

\* Some target-layer point has exactly the coordinates of point i
Collocated(i) ==
    \E j \in TargetSet : pois[j].lat = pois[i].lat /\ pois[j].lng = pois[i].lng

CoverageEntries(name) ==
    {e \in 1..Len(out.body.districtCoverage) : out.body.districtCoverage[e].district = name}

\* ------------------------------------------------------------------
\* C11
\* ------------------------------------------------------------------
\* C11: the coverage output has exactly one entry per label on the city's
\* points; its totalPois is the number of the city's points with that label,
\* its coveredPois the number of those with at least one target-layer point
\* within the radius (each point counted once, so 0 <= coveredPois <=
\* totalPois), and its coveragePct the integer nearest to
\* coveredPois * 100 / totalPois (the even one on a tie).
C11_CoveredOnce ==
    CoverageOK =>
        LET dc == out.body.districtCoverage
            r == out.body.radiusMeters
        IN  /\ {dc[e].district : e \in 1..Len(dc)} =
                  {LabelOrUnknown(i) : i \in CityPoiSet(RunCity)}
            /\ \A e \in 1..Len(dc) :
                  /\ Cardinality(CoverageEntries(dc[e].district)) = 1
                  /\ dc[e].totalPois = Cardinality(LabelledSet(dc[e].district))
                  /\ dc[e].coveredPois =
                        Cardinality({i \in LabelledSet(dc[e].district) : Reached(i, r)})
                  /\ 0 <= dc[e].coveredPois /\ dc[e].coveredPois <= dc[e].totalPois
                  /\ 2 * Abs(dc[e].coveragePct * dc[e].totalPois
                             - dc[e].coveredPois * 100) <= dc[e].totalPois
                  /\ 2 * Abs(dc[e].coveragePct * dc[e].totalPois
                             - dc[e].coveredPois * 100) = dc[e].totalPois
                        => dc[e].coveragePct % 2 = 0

\* two target points at the same place, each in reach of both and counted
\* once: a district with two points, both covered
C11_Witness ==
    /\ CoverageOK
    /\ out.body.radiusMeters = ReachRadius
    /\ Cardinality(TargetSet) = 2
    /\ \A i, j \in TargetSet : Reached(i, 0) /\ pois[i].lat = pois[j].lat
                                /\ pois[i].lng = pois[j].lng
    /\ \E e \in CoverageEntries("Nord") :
          /\ out.body.districtCoverage[e].totalPois = 2
          /\ out.body.districtCoverage[e].coveredPois = 2
          /\ out.body.districtCoverage[e].coveragePct = 100

\* ------------------------------------------------------------------
\* C12
\* ------------------------------------------------------------------
\* C12, as the specification states it: with radius 0, the district of every
\* point of the city that has no target-layer point at exactly its own
\* coordinates is reported with coveragePct = 0.
C12_Original ==
    (CoverageOK /\ out.body.radiusMeters = 0) =>
        \A i \in CityPoiSet(RunCity) :
            ~Collocated(i) =>
                \A e \in CoverageEntries(LabelOrUnknown(i)) :
                    out.body.districtCoverage[e].coveragePct = 0

\* C12, amended: with radius 0 a point of the city counts as covered exactly
\* when a target-layer point has exactly its coordinates (every target-layer
\* point of the city covers itself); a district is reported with
\* coveragePct = 0 when none of its points has a target-layer point at its
\* own coordinates, and with a positive coveredPois otherwise.
C12_RadiusZeroCollocated ==
    (CoverageOK /\ out.body.radiusMeters = 0) =>
        \A e \in 1..Len(out.body.districtCoverage) :
            LET entry == out.body.districtCoverage[e]
                hit == {i \in LabelledSet(entry.district) : Collocated(i)}
            IN  /\ entry.coveredPois = Cardinality(hit)
                /\ hit = {} => entry.coveragePct = 0
                /\ hit # {} => entry.coveredPois > 0

\* a district whose only point is away from every target, beside a district
\* whose only point is a target
C12_Witness ==
    /\ CoverageOK
    /\ out.args.radius = Some(IntText(0))
    /\ \E e \in CoverageEntries("Nord") :
          /\ out.body.districtCoverage[e].totalPois = 1
          /\ out.body.districtCoverage[e].coveragePct = 0
    /\ \E e \in CoverageEntries("Unbekannt") :
          out.body.districtCoverage[e].coveragePct = 100
    /\ \E i \in CityPoiSet(RunCity) : ~Collocated(i)

\* ------------------------------------------------------------------
\* C13
\* ------------------------------------------------------------------
RadiusUnusable == out.args.radius = None \/ out.args.radius = Some(BadText)

\* C13, as the specification states it: a request whose radius parameter is
\* missing or is not an integer is rejected, no coverage statistics are
\* returned for it.
C13_Original ==
    (CoverageRan /\ RadiusUnusable) => out.status # 200

\* C13, amended: a request whose radius parameter is missing or is not an
\* integer is not rejected: it is answered as the same request with
\* radius=500 is, with radiusMeters = 500 and the coverage statistics for 500
\* metres (and with the 404 of an unknown city or layer, as any request).
C13_RadiusDefaults ==
    (CoverageRan /\ RadiusUnusable) =>
        LET same == CoverageResponse(out.slug,
                        [out.args EXCEPT !.radius = Some(IntText(500))])
        IN  /\ out.status = same.status
            /\ out.body = same.body
            /\ out.status = 200 => out.body.radiusMeters = 500

\* a request with radius=abc answered with the statistics for 500 metres
C13_Witness ==
    /\ CoverageOK
    /\ out.args.radius = Some(BadText)
    /\ out.body.radiusMeters = 500
    /\ Len(out.body.districtCoverage) = 2
    /\ \E e \in 1..2 : out.body.districtCoverage[e].coveredPois = 1

\* ------------------------------------------------------------------
\* C14
\* ------------------------------------------------------------------
\* C14: each of the three views answers an unknown city slug with 404 and
\* "City not found"; coverage_analysis answers a layer slug that no layer of
\* the city has with 404 and an error naming the layer, and the answer carries
\* no statistics.
C14_NotFound ==
    /\ (ViewRan /\ ~CityFound) =>
          out.status = 404 /\ out.body = [error |-> "City not found"]
    /\ (CoverageRan /\ CityFound
            /\ \A l \in 1..Len(layers) :
                  layers[l].city_id = RunCity => layers[l].slug # LayerArg(out.args))
          => /\ out.status = 404
             /\ out.body = [error |-> "Layer not found", layer |-> LayerArg(out.args)]

\* a request for the layer "trams" of a city that has points and other layers
C14_Witness ==
    /\ CoverageRan /\ CityFound
    /\ out.args.layer = Some("trams")
    /\ out.status = 404
    /\ out.body.layer = "trams"
    /\ Len(pois) = MaxPois

\* ------------------------------------------------------------------
\* layer_comparison alone, on one more point than the other views
\* ------------------------------------------------------------------
InitComparison ==
    /\ cities = <<Berlin>>
    /\ layers = ViewLayers
    /\ districts = <<>>
    /\ \E ts \in SeqsUpTo(ViewPoiPool, MaxPois + 1) : pois = PoiRows(ts, 1)
    /\ out = [op |-> "none"]
    /\ run = NoRun
    /\ sessions = <<>>

NextComparison == LayerComparison

SpecComparison == InitComparison /\ [][NextComparison]_vars

\* ------------------------------------------------------------------
\* C15
\* ------------------------------------------------------------------
LayerPoiSet(layerId) == {i \in 1..Len(pois) : pois[i].layer_id = layerId}
LayerLabels(layerId) == {LabelOrUnknown(i) : i \in LayerPoiSet(layerId)}
LabelCount(layerId, name) ==
    Cardinality({i \in LayerPoiSet(layerId) : LabelOrUnknown(i) = name})

\* C15: the output has one entry per layer of the city, in the order of the
\* layers; totalPois is the number of the layer's points, districtsServed the
\* number of distinct labels on them (an absent label is "Unbekannt"),
\* maxInDistrict and minInDistrict the largest and the smallest number of
\* points under one label, distributionSpread their difference; for a layer
\* without points average, maximum, minimum and spread are all 0.
C15_LayerStats ==
    ComparisonOK =>
        LET items == out.body.items
            ls == CityLayers(RunCity)
        IN  /\ Len(items) = Len(ls)
            /\ \A k \in 1..Len(items) :
                  LET id == ls[k].id
                      names == LayerLabels(id)
                  IN  /\ items[k].slug = ls[k].slug
                      /\ items[k].totalPois = Cardinality(LayerPoiSet(id))
                      /\ items[k].districtsServed = Cardinality(names)
                      /\ items[k].distributionSpread =
                            items[k].maxInDistrict - items[k].minInDistrict
                      /\ names # {} =>
                            /\ \E n \in names : LabelCount(id, n) = items[k].maxInDistrict
                            /\ \E n \in names : LabelCount(id, n) = items[k].minInDistrict
                            /\ \A n \in names :
                                  /\ LabelCount(id, n) <= items[k].maxInDistrict
                                  /\ LabelCount(id, n) >= items[k].minInDistrict
                      /\ names = {} =>
                            /\ items[k].avgPerDistrict = 0
                            /\ items[k].maxInDistrict = 0
                            /\ items[k].minInDistrict = 0
                            /\ items[k].distributionSpread = 0

\* three points of the first layer under two labels (2 and 1), the last
\* layer without points
C15_Witness ==
    /\ ComparisonOK
    /\ Len(out.body.items) = 3
    /\ out.body.items[1].slug = "kitas"
    /\ out.body.items[1].totalPois = 3
    /\ out.body.items[1].districtsServed = 2
    /\ out.body.items[1].maxInDistrict = 2
    /\ out.body.items[1].minInDistrict = 1
    /\ out.body.items[1].distributionSpread = 1
    /\ out.body.items[1].avgPerDistrict = 15
    /\ out.body.items[3].slug = "playgrounds"
    /\ out.body.items[3].totalPois = 0
    /\ out.body.items[3].distributionSpread = 0

\* ------------------------------------------------------------------
\* C16
\* ------------------------------------------------------------------
\* C16: the entries of the district analytics are in ascending order of
\* equityScore (each entry's score is at most the next one's), and the
\* summary's totalDistricts is the number of entries.
C16_SortedByScore ==
    StatsOK =>
        /\ \A e \in 1..(Len(out.body.items) - 1) :
              out.body.items[e].equityScore <= out.body.items[e + 1].equityScore
        /\ out.body.summary.totalDistricts = Len(out.body.items)

\* the district seeded second has the lower score and comes before the
\* district seeded first; a third entry comes from a label
C16_Witness ==
    /\ StatsOK
    /\ Len(out.body.items) = 3
    /\ Len(districts) = 2
    /\ out.body.items[2].name = districts[1].name
    /\ out.body.items[1].name = districts[2].name
    /\ out.body.items[1].equityScore < out.body.items[2].equityScore
    /\ out.body.items[2].equityScore <= out.body.items[3].equityScore
    /\ out.body.summary.totalDistricts = 3

\* ------------------------------------------------------------------
\* C17
\* ------------------------------------------------------------------
DistrictsNamed(name) == {k \in CityDistrictSet(RunCity) : districts[k].name = name}

\* C17: an entry's density is non-null exactly when its label is the name of
\* a District record of the city whose area is greater than 0, and then it is
\* total / area rounded to one decimal (kept as tenths, the area as
\* hundredths: the integer nearest to 1000 * total / area, the even one on a
\* tie); an entry whose label names
\* no District record has null population, null area and null density.
C17_DensityFollowsArea ==
    StatsOK =>
        \A e \in 1..Len(out.body.items) :
            LET item == out.body.items[e]
                withArea == {k \in DistrictsNamed(item.name) :
                                districts[k].area_km2 # None
                                    /\ districts[k].area_km2[1] > 0}
            IN  /\ (item.density # None) <=> (withArea # {})
                /\ \A k \in withArea :
                      LET a == districts[k].area_km2[1]
                          t == item.density[1]
                      IN  /\ 2 * Abs(t * a - 1000 * item.total) <= a
                          /\ 2 * Abs(t * a - 1000 * item.total) = a => t % 2 = 0
                /\ DistrictsNamed(item.name) = {} =>
                      /\ item.population = None
                      /\ item.areaKm2 = None
                      /\ item.density = None

\* a free-text label beside a district of area 2 holding one point (density
\* 0.5) and a district of area 0
C17_Witness ==
    /\ StatsOK
    /\ \E e \in ItemsNamed("Alte Mitte") :
          out.body.items[e].density = None /\ out.body.items[e].total = 1
    /\ \E e \in ItemsNamed("Nord") :
          out.body.items[e].density = Some(5) /\ out.body.items[e].total = 1
    /\ \E e \in ItemsNamed("Kern") :
          out.body.items[e].density = None /\ out.body.items[e].areaKm2 = Some(0)

\* ------------------------------------------------------------------
\* C18
\* ------------------------------------------------------------------
\* The response of district_analytics on the tables as they are
DistrictAnalyticsResponse(slug) ==
    LET city == CityBySlug(slug)
    IN  IF city = None THEN StatsOut(slug, 404, [error |-> "City not found"])
        ELSE LET cityId == city[1].id
                 zero == ZeroCounts(cityId)
                 seeded == SeedStats(CityDistricts(cityId), 1, zero, <<>>)
             IN  DistrictStatsResponse(slug,
                     CountPois(CityPois(cityId), 1, cityId, zero, seeded))

\* What the view that produced the response o returns on the tables as they
\* are
ViewResult(o) ==
    CASE o.op = "district_analytics" -> DistrictAnalyticsResponse(o.slug)
      [] o.op = "coverage_analysis" -> CoverageResponse(o.slug, o.args)
      [] o.op = "layer_comparison" -> ComparisonResponse(o.slug)

ViewAnswersAgain == ViewRan => out = ViewResult(out)

\* C18: a step of any of the three views leaves every City, Layer, District
\* and POI record as it was, and the response it gives is the response the
\* same request gets on the tables after the step: whatever views ran before
\* and in whatever order, a view returns what it returns when run alone.
C18_ViewsReadOnly ==
    /\ [][ViewRan' =>
            /\ cities' = cities /\ layers' = layers
            /\ districts' = districts /\ pois' = pois]_vars
    /\ []ViewAnswersAgain

\* one view has answered after another on points with null and empty labels
C18_Witness ==
    /\ CoverageOK
    /\ out.body.totalFacilities = 1
    /\ Len(out.body.districtCoverage) = 1
    /\ out.body.districtCoverage[1].district = "Unbekannt"
    /\ out.body.districtCoverage[1].totalPois = 2
    /\ \E i, j \in CityPoiSet(RunCity) :
          pois[i].district = None /\ pois[j].district = Some("")

\* ------------------------------------------------------------------
\* Two cities on the same coordinates: Mannheim's district, stored first,
\* covers Berlin's points too, and both cities have a layer "parks"
\* ------------------------------------------------------------------
Mannheim == [id |-> 2, slug |-> "mannheim"]

TwoCityLayers == << [id |-> 1, city_id |-> 1, slug |-> "kitas"],
                    [id |-> 2, city_id |-> 1, slug |-> "parks"],
                    [id |-> 3, city_id |-> 2, slug |-> "parks"] >>

MannheimDistricts ==
    { <<>>,
      << [city_id |-> 2, name |-> "Sued", slug |-> "sued", geometry |-> SqA,
          population |-> None, area_km2 |-> Some(200)] >> }

BerlinDistricts ==
    { <<>>,
      << [city_id |-> 1, name |-> "Nord", slug |-> "nord", geometry |-> SqA,
          population |-> None, area_km2 |-> Some(200)] >> }

\* Every point's layer is a layer of the point's city (import_csv and the OSM
\* sync look the layer up within the city)
TwoCityPoiPool ==
    { [city_id |-> 1, lng |-> 1, lat |-> 1, district |-> None, layer_id |-> 1],
      [city_id |-> 1, lng |-> 2, lat |-> 1, district |-> Some("Sued"), layer_id |-> 2],
      [city_id |-> 1, lng |-> 6, lat |-> 1, district |-> Some("Nord"), layer_id |-> 2],
      [city_id |-> 2, lng |-> 1, lat |-> 1, district |-> None, layer_id |-> 3],
      [city_id |-> 2, lng |-> 2, lat |-> 1, district |-> Some("Nord"), layer_id |-> 3],
      [city_id |-> 2, lng |-> 6, lat |-> 1, district |-> Some("Sued"), layer_id |-> 3] }

\* Rows in table order, the primary key is the position
TableRows(ts) == [i \in 1..Len(ts) |-> [id |-> i] @@ ts[i]]
PoiTable(ts) == [i \in 1..Len(ts) |-> [id |-> i, updated_at |-> 0] @@ ts[i]]

TwoCitySlugs == {"berlin", "mannheim"}
TwoCityArgs ==
    [layer : {Some("parks")}, radius : {Some(IntText(0)), Some(IntText(ReachRadius))}]

InitCities ==
    /\ cities = <<Berlin, Mannheim>>
    /\ layers = TwoCityLayers
    /\ \E m \in MannheimDistricts, b \in BerlinDistricts : districts = TableRows(m \o b)
    /\ \E ts \in SeqsUpTo(TwoCityPoiPool, MaxPois) : pois = PoiTable(ts)
    /\ out = [op |-> "none"]
    /\ run = NoRun
    /\ sessions = <<>>

NextCities ==
    \/ \E slug \in TwoCitySlugs : assign_districts(slug) /\ UNCHANGED <<run, sessions>>
    \/ \E slug \in TwoCitySlugs : district_analytics(slug) /\ UNCHANGED <<run, sessions>>
    \/ \E slug \in TwoCitySlugs, args \in TwoCityArgs :
          coverage_analysis(slug, args) /\ UNCHANGED <<run, sessions>>
    \/ \E slug \in TwoCitySlugs : layer_comparison(slug) /\ UNCHANGED <<run, sessions>>

SpecCities == InitCities /\ [][NextCities]_vars

\* ------------------------------------------------------------------
\* C19
\* ------------------------------------------------------------------
OtherCityPois == {i \in 1..Len(pois) : pois[i].city_id # RunCity}
CityLayerSlugs == {layers[l].slug : l \in {x \in 1..Len(layers) : layers[x].city_id = RunCity}}
CityTargetSet == {j \in TargetSet : pois[j].city_id = RunCity}

\* C19: a run of assign-districts for city C matches points of C to
\* districts of C only and leaves every point of another city as it was; the
\* district analytics for C list the districts and labels of C and count the
\* points of C per layer of C; the coverage analysis for C counts the points
\* of C against the points of C's layer of the requested slug; the layer
\* comparison for C lists the layers of C with the points of C.
C19_CityScoped ==
    /\ AssignDone =>
          /\ \A i \in OtherCityPois :
                pois[i].district = out.before[i] /\ out.hit[i] = 0 /\ out.writes[i] = 0
          /\ \A i \in 1..Len(pois) :
                out.hit[i] # 0 => districts[out.hit[i]].city_id = RunCity
          /\ out.assigned =
                Cardinality({i \in CityPoiSet(RunCity) : ContainingRows(i, RunCity) # {}})
    /\ StatsOK =>
          /\ {out.body.items[e].name : e \in 1..Len(out.body.items)} = GroupNames(RunCity)
          /\ out.body.summary.totalPois = Cardinality(CityPoiSet(RunCity))
          /\ \A e \in 1..Len(out.body.items) :
                /\ DOMAIN out.body.items[e].layers = CityLayerSlugs
                /\ out.body.items[e].total =
                      Cardinality(LabelledSet(out.body.items[e].name))
    /\ CoverageOK =>
          LET dc == out.body.districtCoverage
          IN  /\ out.body.totalFacilities = Cardinality(CityTargetSet)
              /\ {dc[e].district : e \in 1..Len(dc)} =
                    {LabelOrUnknown(i) : i \in CityPoiSet(RunCity)}
              /\ \A e \in 1..Len(dc) :
                    /\ dc[e].totalPois = Cardinality(LabelledSet(dc[e].district))
                    /\ dc[e].coveredPois =
                          Cardinality({i \in LabelledSet(dc[e].district) :
                              \E j \in CityTargetSet :
                                  haversine_distance(pois[i].lat, pois[i].lng,
                                                     pois[j].lat, pois[j].lng)
                                      <= out.body.radiusMeters})
    /\ ComparisonOK =>
          LET items == out.body.items
              ls == CityLayers(RunCity)
          IN  /\ Len(items) = Len(ls)
              /\ \A k \in 1..Len(items) :
                    /\ items[k].slug = ls[k].slug
                    /\ items[k].totalPois =
                          Cardinality({i \in CityPoiSet(RunCity) :
                                          pois[i].layer_id = ls[k].id})

\* a run for Berlin labelled Berlin's point "Nord" although Mannheim's
\* district comes first and contains it, and left Mannheim's point at the
\* same place without label
C19_Witness ==
    /\ AssignDone /\ out.slug = "berlin"
    /\ Len(districts) = 2 /\ Len(pois) = 2
    /\ districts[1].city_id = 2 /\ districts[2].city_id = 1
    /\ \E i, j \in 1..2 :
          /\ pois[i].city_id = 1 /\ pois[j].city_id = 2
          /\ pois[i].lat = pois[j].lat /\ pois[i].lng = pois[j].lng
          /\ point_in_polygon(pois[i].lng, pois[i].lat, districts[1].geometry)
          /\ out.before[i] = None /\ pois[i].district = Some("Nord")
          /\ out.hit[i] = 2
          /\ pois[j].district = None

\* ------------------------------------------------------------------
\* An assign-districts process and the district analytics of the web
\* application on the same city: the view may run before the command, between
\* any two passes of its loop, before its commit and after it
\* ------------------------------------------------------------------
RunDistricts ==
    { <<NordSued[1]>>, NordSued, <<NordSued[2], NordSued[1]>> }

InitRun ==
    /\ cities = <<Berlin>>
    /\ layers = BerlinLayers
    /\ \E ts \in RunDistricts : districts = DistrictRows(ts, 1)
    /\ \E ts \in SeqsUpTo(PoiPool, MaxPois) : pois = PoiRows(ts, 1)
    /\ out = [op |-> "none"]
    /\ run = NoRun
    /\ sessions = <<>>

AssignLoad == \E slug \in CitySlugs : assign_load(slug) /\ UNCHANGED sessions
AssignStep == assign_step /\ UNCHANGED sessions
AssignCommit == assign_commit /\ UNCHANGED sessions
\* run.seen: the pass the command was about to make when the view last ran
ReadDuringRun ==
    \E slug \in CitySlugs :
        /\ district_analytics(slug) /\ run' = [run EXCEPT !.seen = run.k]
        /\ UNCHANGED sessions

NextRun == AssignLoad \/ AssignStep \/ AssignCommit \/ ReadDuringRun

SpecRun == InitRun /\ [][NextRun]_vars

\* ------------------------------------------------------------------
\* C20
\* ------------------------------------------------------------------
Running == run.phase = "loop"
\* the view was the latest step, and it ran while the command was in its loop
ReadInRun == Running /\ run.seen = run.k /\ StatsRan
SessionLabels == [i \in 1..Len(pois) |-> run.scans[i].label]
\* the command has set a new label on one point and will set one on another
HalfDone ==
    /\ Running
    /\ \E i \in 1..Len(pois) : run.scans[i].label # run.before[i]
    /\ \E k \in run.k..Len(CityPois(run.cityId)) :
          LET j == CityPois(run.cityId)[k]
          IN  ScanDistricts(pois[j], run.cand, 1).label # run.before[j]

KmSqNum == 1236431
KmSqDen == 200000000

\* The loop of lines 592-598 (1-based here, j = (i + 1) % n):
\*   area += lng1 * lat2; area -= lng2 * lat1
RECURSIVE Shoelace(_, _, _)
Shoelace(coords, i, area) ==
    IF i > Len(coords) THEN area
    ELSE LET j == (i % Len(coords)) + 1
         IN  Shoelace(coords, i + 1,
                      (area + coords[i][1] * coords[j][2]) - coords[j][1] * coords[i][2])

\* Variant: a ring of fewer than 3 vertices is summed like any other
calculate_polygon_area_any(coords) ==
    [num |-> Abs(Shoelace(coords, 1, 0)) * KmSqNum, den |-> KmSqDen]

\* _calculate_polygon_area: the area in km2, as the fraction num / den
calculate_polygon_area(coords) ==
    IF Len(coords) < 3 THEN [num |-> 0, den |-> KmSqDen]
    ELSE [num |-> Abs(Shoelace(coords, 1, 0)) * KmSqNum, den |-> KmSqDen]

\* round(area_km2, 2) if area_km2 else None, as a number of hundredths
StoredArea(area) ==
    IF area.num = 0 THEN None ELSE Some(RoundHalfEven(area.num, area.den \div 100))

\* name.lower().replace(" ", "-"), umlauts spelled out, other characters
\* dropped, on the names of the model
DistrictSlug(name) ==
    CASE name = "Nord" -> "nord"
      [] name = "NORD" -> "nord"
      [] name = "Sued" -> "sued"
      [] name = "Alt Sued" -> "alt-sued"
      [] OTHER -> name

\* What an endpoint answers: httpx.post raises, or it returns a response with
\* an error status (raise_for_status raises) or with a success status.  A
\* body is None when response.json() raises and else Some(relations); a
\* relation carries its tags' name and the [lon, lat] pairs that lines
\* 543-551 collect from its outer ways.
Raised == [kind |-> "exception", body |-> None]
HttpError(body) == [kind |-> "http_error", body |-> body]
HttpOk(body) == [kind |-> "ok", body |-> body]

\* Variant: a response with an error status is not kept
RECURSIVE TryEndpointsDropErrors(_, _, _)
TryEndpointsDropErrors(replies, k, response) ==
    IF k > Len(replies) THEN response
    ELSE IF replies[k].kind = "ok" THEN Some(replies[k])
         ELSE TryEndpointsDropErrors(replies, k + 1, None)

\* Lines 490-503: "response = httpx.post(...)" is assigned before
\* raise_for_status() raises, and the loop stops at the first success
RECURSIVE TryEndpoints(_, _, _)
TryEndpoints(replies, k, response) ==
    IF k > Len(replies) THEN response
    ELSE IF replies[k].kind = "exception" THEN TryEndpoints(replies, k + 1, response)
         ELSE IF replies[k].kind = "http_error"
              THEN TryEndpoints(replies, k + 1, Some(replies[k]))
              ELSE Some(replies[k])

SlugRow(stored, slug) == {h \in 1..Len(stored) : stored[h].slug = slug}

\* Variant: a relation whose ring has fewer than 3 vertices ends the loop
RECURSIVE StoreRelationsAbort(_, _, _, _)
StoreRelationsAbort(rels, k, cityId, stored) ==
    IF k > Len(rels) THEN stored
    ELSE
     LET rel == rels[k]
     IN  IF rel.name = None \/ rel.name = Some("")
         THEN StoreRelationsAbort(rels, k + 1, cityId, stored)
         ELSE IF Len(rel.outer) < 3 THEN stored
         ELSE
          LET slug == DistrictSlug(rel.name[1])
              row == [city_id |-> cityId, name |-> rel.name[1], slug |-> slug,
                      geometry |-> Polygon(rel.outer), population |-> None,
                      area_km2 |-> StoredArea(calculate_polygon_area(rel.outer))]
              same == SlugRow(stored, slug)
          IN  StoreRelationsAbort(rels, k + 1, cityId,
                  IF same = {} THEN Append(stored, row)
                  ELSE [stored EXCEPT ![CHOOSE h \in same : TRUE] = row])

\* Variant: every named relation with a ring becomes a row of its own
RECURSIVE StoreRelationsNoLookup(_, _, _, _)
StoreRelationsNoLookup(rels, k, cityId, stored) ==
    IF k > Len(rels) THEN stored
    ELSE
     LET rel == rels[k]
     IN  IF rel.name = None \/ rel.name = Some("") \/ Len(rel.outer) < 3
         THEN StoreRelationsNoLookup(rels, k + 1, cityId, stored)
         ELSE StoreRelationsNoLookup(rels, k + 1, cityId,
                  Append(stored,
                      [city_id |-> cityId, name |-> rel.name[1],
                       slug |-> DistrictSlug(rel.name[1]),
                       geometry |-> Polygon(rel.outer), population |-> None,
                       area_km2 |-> StoredArea(calculate_polygon_area(rel.outer))]))

\* Lines 531-578: "for rel in relations".  A relation without name or with
\* fewer than 3 coordinates is passed over; the district of the same city and
\* slug, if this run has added one, is overwritten, else a District is added
RECURSIVE StoreRelations(_, _, _, _)
StoreRelations(rels, k, cityId, stored) ==
    IF k > Len(rels) THEN stored
    ELSE
     LET rel == rels[k]
     IN  IF rel.name = None \/ rel.name = Some("") \/ Len(rel.outer) < 3
         THEN StoreRelations(rels, k + 1, cityId, stored)
         ELSE
          LET slug == DistrictSlug(rel.name[1])
              row == [city_id |-> cityId, name |-> rel.name[1], slug |-> slug,
                      geometry |-> Polygon(rel.outer), population |-> None,
                      area_km2 |-> StoredArea(calculate_polygon_area(rel.outer))]
              same == SlugRow(stored, slug)
          IN  StoreRelations(rels, k + 1, cityId,
                  IF same = {} THEN Append(stored, row)
                  ELSE [stored EXCEPT ![CHOOSE h \in same : TRUE] = row])

\* count += 1: the relations the loop did not pass over
Synced(rels) ==
    {k \in 1..Len(rels) :
        ~(rels[k].name = None \/ rels[k].name = Some("") \/ Len(rels[k].outer) < 3)}

\* Primary keys of added rows: above every key of the table
MaxId(rows) ==
    IF rows = <<>> THEN 0
    ELSE CHOOSE m \in {rows[k].id : k \in 1..Len(rows)} :
            \A k \in 1..Len(rows) : rows[k].id <= m

\* What a sync leaves behind: the console report (status, count) and, for
\* the properties, the replies it got, the tables before it and the value
\* _calculate_polygon_area returned for each ring it was called on
SyncOut(slug, status, count, replies, areas) ==
    [op |-> "sync_districts", slug |-> slug, status |-> status, count |-> count,
     replies |-> replies, areas |-> areas,
     before |-> [districts |-> districts, pois |-> pois]]

\* Variant: the labels of the points stay
ClearLabelsNot(cityId) == pois

\* Lines 527-529: db.update(POI).where(POI.city_id == city.id)
\*                  .values(district=None), updated_at with it
ClearLabels(cityId) ==
    [i \in 1..Len(pois) |->
        IF pois[i].city_id = cityId
        THEN [pois[i] EXCEPT !.district = None, !.updated_at = @ + 1]
        ELSE pois[i]]

RingAreas(rels) ==
    [k \in Synced(rels) |-> calculate_polygon_area(rels[k].outer)]

sync_districts(city_slug, replies) ==
    \E city \in {CityBySlug(city_slug)} :
        IF city = None
        THEN /\ out' = SyncOut(city_slug, "city_not_found", 0, replies, <<>>)
             /\ UNCHANGED <<cities, layers, districts, pois>>
        ELSE
         \E response \in {TryEndpoints(replies, 1, None)} :
             IF response = None
             THEN /\ out' = SyncOut(city_slug, "fetch_failed", 0, replies, <<>>)
                  /\ UNCHANGED <<cities, layers, districts, pois>>
             ELSE IF response[1].body = None
             THEN /\ out' = SyncOut(city_slug, "parse_failed", 0, replies, <<>>)
                  /\ UNCHANGED <<cities, layers, districts, pois>>
             ELSE
              LET cityId == city[1].id
                  rels == response[1].body[1]
                  kept == SelectSeq(districts, LAMBDA d : d.city_id # cityId)
                  stored == StoreRelations(rels, 1, cityId, <<>>)
                  first == MaxId(kept)
              IN  /\ districts' = kept \o [h \in 1..Len(stored) |->
                                              [id |-> first + h] @@ stored[h]]
                  /\ pois' = ClearLabels(cityId)
                  /\ out' = SyncOut(city_slug, "done", Cardinality(Synced(rels)),
                                    replies, RingAreas(rels))
                  /\ UNCHANGED <<cities, layers>>

\* ------------------------------------------------------------------
\* One relation whose ring is a square of about 1 km x 1 km on the ground,
\* between 45 and 50 degrees north, near 8 and near 13 degrees east
\* ------------------------------------------------------------------
\* cos(latitude) in ten-thousandths
CosE4(latDeg) ==
    CASE latDeg = 45 -> 7071
      [] latDeg = 46 -> 6947
      [] latDeg = 47 -> 6820
      [] latDeg = 48 -> 6691
      [] latDeg = 49 -> 6561
      [] latDeg = 50 -> 6428

\* Metres on the ground of d thousandths of a degree of latitude, and of
\* longitude at a latitude (a degree of latitude is 111195 m)
NorthSouthM(d) == (d * 111195) \div 1000
EastWestM(d, latDeg) == (((d * 111195) \div 1000) * CosE4(latDeg)) \div 10000

AboutOneKm(m) == 950 <= m /\ m <= 1050

SquareRings ==
    { RectRing(x, x + w, 1000 * lat, 1000 * lat + h, start, cw, closed) :
        <<lat, x, w, h, start, cw, closed>> \in
            { t \in (45..50) \X {8000, 13000} \X (12..15) \X (8..10)
                        \X (0..3) \X BOOLEAN \X BOOLEAN :
                AboutOneKm(EastWestM(t[3], t[1])) /\ AboutOneKm(NorthSouthM(t[4])) } }

InitArea ==
    /\ cities = <<Berlin>>
    /\ layers = BerlinLayers
    /\ districts = <<>>
    /\ pois = <<>>
    /\ out = [op |-> "none"]
    /\ run = NoRun
    /\ sessions = <<>>

SyncSquare ==
    /\ out.op = "none"
    /\ \E ring \in SquareRings :
          sync_districts("berlin", << HttpOk(Some(<< [name |-> Some("Nord"),
                                                      outer |-> ring] >>)) >>)
    /\ UNCHANGED <<run, sessions>>

NextArea == SyncSquare

SpecArea == InitArea /\ [][NextArea]_vars

\* ------------------------------------------------------------------
\* C21
\* ------------------------------------------------------------------
SyncRan == out.op = "sync_districts"
SyncDone == SyncRan /\ out.status = "done"

\* C21: the area computed for a square ring of about 1 km x 1 km on the
\* ground between 45 and 50 degrees north is within 10% of 1.0 km2
\* (0.9 <= num / den <= 1.1).
C21_Original ==
    SyncDone =>
        \A k \in DOMAIN out.areas :
            /\ 9 * (out.areas[k].den \div 10) <= out.areas[k].num
            /\ out.areas[k].num <= 11 * (out.areas[k].den \div 10)

\* What the function returns for these squares: between 1.3 and 1.7 km2
C21_AreaOverstated ==
    SyncDone =>
        \A k \in DOMAIN out.areas :
            /\ 13 * (out.areas[k].den \div 10) <= out.areas[k].num
            /\ out.areas[k].num <= 17 * (out.areas[k].den \div 10)

\* ------------------------------------------------------------------
\* Boundary sync and assignment on two cities.  Berlin is the city that is
\* synced: its districts are those a sync stored and its points carry no
\* label, as a sync leaves them.  Mannheim is never synced: its districts
\* and labels are whatever was stored, malformed geometries included.
\* ------------------------------------------------------------------
TwoCoords == << <<0, 0>>, <<4, 4>> >>
SqRing == << <<0, 0>>, <<4, 0>>, <<4, 4>>, <<0, 4>> >>
TriRing == << <<2, 0>>, <<7, 0>>, <<2, 3>>, <<2, 0>> >>

Relation(name, outer) == [name |-> name, outer |-> outer]

\* The relations of a reply: none; one; a ring of two coordinates before two
\* good ones; a relation without name; two names with one slug
Bodies ==
    { <<>>,
      << Relation(Some("Nord"), SqRing) >>,
      << Relation(Some("Kern"), TwoCoords), Relation(Some("Nord"), SqRing),
         Relation(Some("Sued"), TriRing) >>,
      << Relation(None, SqRing), Relation(Some("Sued"), TriRing) >>,
      << Relation(Some("Nord"), SqRing), Relation(Some("NORD"), TriRing) >> }

\* The first endpoint answers, or it raises and the second answers
SyncReplies ==
    {<<HttpOk(None)>>} \cup {<<HttpOk(Some(b))>> : b \in Bodies}
        \cup {<<Raised, HttpOk(Some(<< Relation(Some("Nord"), SqRing) >>))>>}

MultiPolygon(ring) == Some([type |-> "MultiPolygon", coordinates |-> << <<ring>> >>])

StoredDistricts ==
    { << [city_id |-> 2, name |-> "West", slug |-> "west", geometry |-> None,
          population |-> None, area_km2 |-> None],
         [city_id |-> 2, name |-> "Nord", slug |-> "nord", geometry |-> SqA,
          population |-> None, area_km2 |-> Some(20)] >>,
      << [city_id |-> 2, name |-> "Kern", slug |-> "kern", geometry |-> TwoVertices,
          population |-> None, area_km2 |-> None],
         [city_id |-> 2, name |-> "Insel", slug |-> "insel",
          geometry |-> MultiPolygon(SqRing), population |-> None,
          area_km2 |-> None],
         [city_id |-> 2, name |-> "Sued", slug |-> "sued", geometry |-> Tri,
          population |-> None, area_km2 |-> Some(9)] >> }

SyncedBodies ==
    { <<>>,
      << Relation(Some("Nord"), SqRing) >>,
      << Relation(Some("Sued"), TriRing), Relation(Some("Nord"), SqRing) >> }

\* Points with the JSON attributes of their layer, or none
SyncPoiPool ==
    { [city_id |-> 1, lng |-> 1, lat |-> 1, district |-> None, layer_id |-> 1,
       attributes |-> Some([places |-> 40])],
      [city_id |-> 1, lng |-> 3, lat |-> 1, district |-> None, layer_id |-> 2,
       attributes |-> None],
      [city_id |-> 2, lng |-> 1, lat |-> 1, district |-> None, layer_id |-> 3,
       attributes |-> None],
      [city_id |-> 2, lng |-> 3, lat |-> 1, district |-> Some("Alte Mitte"),
       layer_id |-> 3, attributes |-> Some([places |-> 40])],
      [city_id |-> 2, lng |-> 6, lat |-> 1, district |-> Some("Nord"),
       layer_id |-> 3, attributes |-> None] }

InitSync ==
    /\ cities = <<Berlin, Mannheim>>
    /\ layers = TwoCityLayers
    /\ \E m \in StoredDistricts, b \in SyncedBodies :
          districts = TableRows(m \o StoreRelations(b, 1, 1, <<>>))
    /\ \E ts \in SeqsUpTo(SyncPoiPool, MaxPois) : pois = PoiTable(ts)
    /\ out = [op |-> "none"]
    /\ run = NoRun
    /\ sessions = <<>>

\* Berlin with every reply, a city that is not in the table with one
SyncCalls == ({"berlin"} \X SyncReplies) \cup {<<"hamburg", <<Raised, Raised>> >>}

SyncDistricts ==
    /\ \A i \in 1..Len(pois) : pois[i].updated_at < MaxStamp
    /\ \E call \in SyncCalls : sync_districts(call[1], call[2]) /\ UNCHANGED <<run, sessions>>

AssignSynced == \E slug \in TwoCitySlugs : assign_districts(slug) /\ UNCHANGED <<run, sessions>>

NextSync == SyncDistricts \/ AssignSynced

SpecSync == InitSync /\ [][NextSync]_vars

\* ------------------------------------------------------------------
\* Vocabulary of the properties of the boundary sync
\* ------------------------------------------------------------------
\* the relations of the reply the sync parsed
SyncBody == TryEndpoints(out.replies, 1, None)[1].body[1]
CityRowsOf(rows, cityId) == SelectSeq(rows, LAMBDA d : d.city_id = cityId)
ProbePoints == 0..7
ReplyRings ==
    {r.body[1][k].outer :
        <<r, k>> \in {<<r, k>> \in {out.replies[e] : e \in 1..Len(out.replies)} \X (1..3) :
                        r.body # None /\ k <= Len(r.body[1])}}

\* ------------------------------------------------------------------
\* C22
\* ------------------------------------------------------------------
\* C22: a geometry that is absent, not of type Polygon or a ring of fewer than
\* 3 vertices contains no point, and the area of a ring of fewer than 3
\* vertices is 0; an assignment run passes such a district over and gives a
\* point the first well-formed district of the city that contains it; a
\* boundary sync passes a relation with such a ring over and stores every
\* other named relation of the reply (the last one of each slug).
C22_MalformedSkipped ==
    /\ \A k \in 1..Len(districts) :
          ~Usable(districts[k].geometry) =>
              \A x, y \in ProbePoints : ~point_in_polygon(x, y, districts[k].geometry)
    /\ SyncRan =>
          \A ring \in ReplyRings :
              Len(ring) < 3 => calculate_polygon_area(ring).num = 0
    /\ AssignDone =>
          \A i \in CityPoiSet(RunCity) :
              out.hit[i] = IF ContainingRows(i, RunCity) = {} THEN 0
                           ELSE MinOf(ContainingRows(i, RunCity))
    /\ SyncDone =>
          LET rels == SyncBody
              rows == CityRowsOf(districts, RunCity)
              good == {k \in 1..Len(rels) :
                          rels[k].name # None /\ rels[k].name # Some("")
                              /\ Len(rels[k].outer) >= 3}
              last == {k \in good :
                          \A j \in good :
                              DistrictSlug(rels[j].name[1]) = DistrictSlug(rels[k].name[1])
                                  => j <= k}
          IN  /\ out.count = Cardinality(good)
              /\ Len(rows) = Cardinality(last)
              /\ \A k \in last :
                    \E h \in 1..Len(rows) :
                        /\ rows[h].name = rels[k].name[1]
                        /\ rows[h].geometry = Polygon(rels[k].outer)

\* a sync whose reply lists a ring of two coordinates first stored the two
\* relations after it
C22_Witness ==
    /\ SyncDone
    /\ Len(SyncBody) = 3
    /\ Len(SyncBody[1].outer) = 2
    /\ out.count = 2
    /\ {d.name : d \in {districts[k] : k \in CityDistrictSet(RunCity)}} = {"Nord", "Sued"}
    /\ Len(CityRowsOf(out.before.districts, RunCity)) = 1

\* a run for Mannheim passed over a ring of two coordinates and a
\* MultiPolygon and gave the point the third district
C22_AssignCase ==
    /\ AssignDone /\ out.slug = "mannheim"
    /\ \E i \in CityPoiSet(2) :
          /\ out.hit[i] = 3
          /\ ~Usable(districts[1].geometry) /\ ~Usable(districts[2].geometry)
          /\ districts[2].geometry # None
          /\ pois[i].district = Some("Sued")

\* ------------------------------------------------------------------
\* C23
\* ------------------------------------------------------------------
SameButLabel(before, after) == [after EXCEPT !.district = before.district] = before

\* C23 as stated: an assignment run changes nothing but the district label
\* of points; every other column of every point and every District record
\* is after the run what it was before.
C23_Original ==
    [][AssignRan' =>
          /\ districts' = districts
          /\ Len(pois') = Len(pois)
          /\ \A i \in 1..Len(pois) : SameButLabel(pois[i], pois'[i])]_vars

\* C23: an assignment run leaves the cities, the layers and every District
\* record as they were and changes no point but those whose label it
\* changes; of such a point it changes the label and the updated_at
\* timestamp, and nothing else (identifier, city, layer, latitude, longitude
\* and attributes stay).
C23_LabelAndTimestampOnly ==
    [][AssignRan' =>
          /\ districts' = districts /\ cities' = cities /\ layers' = layers
          /\ Len(pois') = Len(pois)
          /\ \A i \in 1..Len(pois) :
                \/ pois'[i] = pois[i]
                \/ /\ pois'[i].district # pois[i].district
                   /\ pois'[i].updated_at # pois[i].updated_at
                   /\ pois'[i] = [pois[i] EXCEPT !.district = pois'[i].district,
                                                 !.updated_at = pois'[i].updated_at]]_vars

\* a run for Mannheim relabelled a point that has attributes and left
\* another point of Mannheim, outside every polygon, as it was
C23_Witness ==
    /\ AssignDone /\ out.slug = "mannheim"
    /\ \E i, j \in CityPoiSet(2) :
          /\ out.before[i] = Some("Alte Mitte")
          /\ pois[i].district = Some("Sued")
          /\ pois[i].attributes # None
          /\ pois[i].updated_at = 1
          /\ out.hit[j] = 0
          /\ pois[j].district = out.before[j]
          /\ pois[j].updated_at = 0

\* ------------------------------------------------------------------
\* C24
\* ------------------------------------------------------------------
\* C24: a run leaves the row of every point of the city that lies in no
\* district polygon as it was, whatever label the point carries, and a run
\* that ends early changes no label; the count a run reports is the number of
\* points of the city that lie in at least one polygon.
C24_OutsideUntouched ==
    /\ (AssignRan /\ ~AssignDone) => Labels = out.before
    /\ AssignDone =>
          /\ \A i \in CityPoiSet(RunCity) :
                ContainingRows(i, RunCity) = {}
                    => pois[i].district = out.before[i] /\ pois[i].updated_at = 0
          /\ out.assigned = Cardinality(CityPoiSet(RunCity))
                - Cardinality({i \in CityPoiSet(RunCity) : ContainingRows(i, RunCity) = {}})

\* a point labelled "Nord" outside the polygon of Nord kept its label while
\* the other point was assigned
C24_Witness ==
    /\ AssignDone
    /\ out.assigned = 1
    /\ \E i, j \in CityPoiSet(RunCity), k \in CandidateRows(RunCity) :
          /\ out.before[i] = Some("Nord")
          /\ districts[k].name = "Nord"
          /\ ContainingRows(i, RunCity) = {}
          /\ pois[i].district = Some("Nord")
          /\ out.hit[j] # 0
          /\ out.before[j] # pois[j].district

\* ------------------------------------------------------------------
\* C25
\* ------------------------------------------------------------------
OtherRows(rows) == SelectSeq(rows, LAMBDA d : d.city_id # RunCity)

\* C25: after a boundary sync of city C that got a reply it could parse,
\* every point of C has a null label, every District record of C is one the
\* sync made from a relation of the reply, and the points and districts of
\* every other city are as before.  And in every state after a boundary sync
\* of Berlin, whatever syncs and assignment runs followed it, every non-null
\* label of a point of Berlin is the name of a current district of Berlin
\* whose polygon contains the point.
C25_SyncThenAssign ==
    /\ SyncDone =>
          /\ \A i \in CityPoiSet(RunCity) : pois[i].district = None
          /\ \A h \in CityDistrictSet(RunCity) :
                \E k \in Synced(SyncBody) :
                    /\ districts[h].name = SyncBody[k].name[1]
                    /\ districts[h].geometry = Polygon(SyncBody[k].outer)
                    /\ districts[h].slug = DistrictSlug(SyncBody[k].name[1])
          /\ \A b \in 1..Len(out.before.districts) :
                (/\ out.before.districts[b].city_id = RunCity
                 /\ \A k \in Synced(SyncBody) :
                       DistrictSlug(SyncBody[k].name[1])
                           # out.before.districts[b].slug)
                => \A h \in CityDistrictSet(RunCity) :
                       districts[h].slug # out.before.districts[b].slug
          /\ OtherRows(districts) = OtherRows(out.before.districts)
          /\ Len(pois) = Len(out.before.pois)
          /\ \A i \in 1..Len(pois) :
                pois[i].city_id # RunCity => pois[i] = out.before.pois[i]
    /\ \A i \in CityPoiSet(Berlin.id) :
          pois[i].district # None =>
              \E h \in CityDistrictSet(Berlin.id) :
                  /\ Some(districts[h].name) = pois[i].district
                  /\ point_in_polygon(pois[i].lng, pois[i].lat, districts[h].geometry)

\* a point of Berlin was cleared by a sync that stored NORD with the
\* triangle, and the run after it labelled the point NORD
C25_Witness ==
    /\ AssignDone /\ out.slug = "berlin"
    /\ \E i \in CityPoiSet(Berlin.id) :
          /\ pois[i].updated_at = 2
          /\ pois[i].district = Some("NORD")
          /\ out.before[i] = None
          /\ districts[out.hit[i]].geometry = Polygon(TriRing)

\* ------------------------------------------------------------------
\* The boundary sync when the fetch fails
\* ------------------------------------------------------------------
\* What an endpoint gives when it fails: an exception of httpx.post (no
\* response object), or a response with an error status whose body is not
\* JSON, or one whose body is a JSON object without elements
FailedReplies == {Raised, HttpError(None), HttpError(Some(<<>>))}

\* Both endpoints fail, or one answers 200 with a body that is not JSON
FetchCalls ==
    {<<a, b>> : a \in FailedReplies, b \in FailedReplies}
        \cup {<<HttpOk(None)>>, <<Raised, HttpOk(None)>>}

SyncFetchFails ==
    /\ \A i \in 1..Len(pois) : pois[i].updated_at < MaxStamp
    /\ \E replies \in FetchCalls : sync_districts("berlin", replies) /\ UNCHANGED <<run, sessions>>

AssignFetched == \E slug \in TwoCitySlugs : assign_districts(slug) /\ UNCHANGED <<run, sessions>>

NextFetch == SyncFetchFails \/ AssignFetched

SpecFetch == InitSync /\ [][NextFetch]_vars

\* ------------------------------------------------------------------
\* C27
\* ------------------------------------------------------------------
EveryAttemptFailed(replies) == \A k \in 1..Len(replies) : replies[k].kind # "ok"

Unparseable(replies) ==
    \E response \in {TryEndpoints(replies, 1, None)} :
        response # None /\ response[1].body = None

\* C27: if every endpoint attempt of sync-districts failed (exception or
\* HTTP error status) or the response could not be parsed, the District
\* records and the labels of all points are as they were before the call.
C27_Original ==
    (SyncRan /\ (EveryAttemptFailed(out.replies) \/ Unparseable(out.replies)))
        => /\ districts = out.before.districts
           /\ pois = out.before.pois

\* What the code does keep: nothing is deleted when no attempt left a
\* response object, or when the body of the response it kept is not JSON
C27_NoResponseOrNoJson ==
    (SyncRan /\ out.status \in {"fetch_failed", "parse_failed"})
        => /\ districts = out.before.districts
           /\ pois = out.before.pois

\* both attempts failed, the first with an error status and a JSON body:
\* the rows of Berlin are gone and a label was cleared
C27_ErrorBodyUsed ==
    /\ SyncDone /\ EveryAttemptFailed(out.replies)
    /\ CityRowsOf(out.before.districts, 1) # <<>>
    /\ CityRowsOf(districts, 1) = <<>>
    /\ \E i \in 1..Len(pois) :
          out.before.pois[i].district # None /\ pois[i].district = None

\* ------------------------------------------------------------------
\* The commands that fill the tables: load-city, import-csv, sync-osm,
\* sync-all.  Here a Layer row also carries source_type and source_config,
\* a config is [slug, layers], a layer of a config [slug, type, query].
\* ------------------------------------------------------------------
LayerData(slug, type, query) == [slug |-> slug, type |-> type, query |-> query]

LayerRow(id, cityId, slug, data) ==
    [id |-> id, city_id |-> cityId, slug |-> slug,
     source_type |-> data.type, source_config |-> data.query]

LayerRowsOf(rows, cityId, slug) ==
    {h \in 1..Len(rows) : rows[h].city_id = cityId /\ rows[h].slug = slug}

\* Variant: a layer of the config always makes a new row
RECURSIVE LoadLayersNoLookup(_, _, _, _)
LoadLayersNoLookup(data, k, cityId, rows) ==
    IF k > Len(data) THEN rows
    ELSE IF data[k].slug = None THEN LoadLayersNoLookup(data, k + 1, cityId, rows)
    ELSE LoadLayersNoLookup(data, k + 1, cityId,
             Append(rows, LayerRow(MaxId(rows) + 1, cityId, data[k].slug[1], data[k])))

\* "for layer_data in config.get('layers', [])": a layer without slug is
\* skipped, a layer whose (city, slug) has a row (stored, or added earlier in
\* this loop and flushed by the query) updates that row, any other adds one
RECURSIVE LoadLayers(_, _, _, _)
LoadLayers(data, k, cityId, rows) ==
    IF k > Len(data) THEN rows
    ELSE IF data[k].slug = None THEN LoadLayers(data, k + 1, cityId, rows)
    ELSE LET slug == data[k].slug[1]
             found == LayerRowsOf(rows, cityId, slug)
         IN  IF found = {}
             THEN LoadLayers(data, k + 1, cityId,
                      Append(rows, LayerRow(MaxId(rows) + 1, cityId, slug, data[k])))
             ELSE LoadLayers(data, k + 1, cityId,
                      [rows EXCEPT ![MinOf(found)] =
                          LayerRow(rows[MinOf(found)].id, cityId, slug, data[k])])

CitiesWith(cs, slug) == {c \in 1..Len(cs) : cs[c].slug = slug}

\* _load_city_config and the body of load_city after its slug check: the
\* city is looked up by slug or created, then its layers are loaded
load_city_config(cs, ls, config) ==
    LET slug == config.slug[1]
        cs2 == IF CitiesWith(cs, slug) = {}
               THEN Append(cs, [id |-> MaxId(cs) + 1, slug |-> slug])
               ELSE cs
        city == cs2[MinOf(CitiesWith(cs2, slug))]
    IN  [cities |-> cs2, layers |-> LoadLayers(config.layers, 1, city.id, ls)]

load_city(config) ==
    IF config.slug = None
    THEN /\ out' = [op |-> "load_city", status |-> "no_slug"]
         /\ UNCHANGED <<cities, layers, districts, pois>>
    ELSE \E db \in {load_city_config(cities, layers, config)} :
            /\ cities' = db.cities
            /\ layers' = db.layers
            /\ out' = [op |-> "load_city", status |-> "done"]
            /\ UNCHANGED <<districts, pois>>

\* A cell of a CSV file read as a number: float(text) or ValueError
Cell(v) == [ok |-> TRUE, v |-> v]
BadCell == [ok |-> FALSE, v |-> 0]

\* Lines 246-270 for the rows of the file: a row whose lat or lng does not
\* parse, or is zero, is skipped
RECURSIVE ImportRows(_, _, _, _, _)
ImportRows(rows, k, cityId, layerId, ps) ==
    IF k > Len(rows) THEN ps
    ELSE IF ~rows[k].lat.ok \/ ~rows[k].lng.ok
         THEN ImportRows(rows, k + 1, cityId, layerId, ps)
    ELSE IF rows[k].lat.v = 0 \/ rows[k].lng.v = 0
         THEN ImportRows(rows, k + 1, cityId, layerId, ps)
    ELSE ImportRows(rows, k + 1, cityId, layerId,
             Append(ps, [id |-> MaxId(ps) + 1, city_id |-> cityId,
                         layer_id |-> layerId, lat |-> rows[k].lat.v,
                         lng |-> rows[k].lng.v, district |-> rows[k].district,
                         attributes |-> None, updated_at |-> 0]))

import_csv(city_slug, layer_slug, rows) ==
    \E city \in {CityBySlug(city_slug)} :
        IF city = None
        THEN /\ out' = [op |-> "import_csv", status |-> "city_not_found"]
             /\ UNCHANGED <<cities, layers, districts, pois>>
        ELSE IF LayerRowsOf(layers, city[1].id, layer_slug) = {}
        THEN /\ out' = [op |-> "import_csv", status |-> "layer_not_found"]
             /\ UNCHANGED <<cities, layers, districts, pois>>
        ELSE LET layer == layers[MinOf(LayerRowsOf(layers, city[1].id, layer_slug))]
             IN  /\ pois' = ImportRows(rows, 1, city[1].id, layer.id, pois)
                 /\ out' = [op |-> "import_csv", status |-> "done"]
                 /\ UNCHANGED <<cities, layers, districts>>

\* An element of an Overpass reply: a node has lat and lon, a way has a
\* center or not
Node(lat, lon) == [type |-> "node", at |-> Some(<<lat, lon>>)]
Way(center) == [type |-> "way", at |-> center]

RECURSIVE ElementPois(_, _, _, _, _)
ElementPois(elements, k, cityId, layerId, ps) ==
    IF k > Len(elements) THEN ps
    ELSE IF elements[k].at = None
         THEN ElementPois(elements, k + 1, cityId, layerId, ps)
    ELSE ElementPois(elements, k + 1, cityId, layerId,
             Append(ps, [id |-> MaxId(ps) + 1, city_id |-> cityId,
                         layer_id |-> layerId, lat |-> elements[k].at[1][1],
                         lng |-> elements[k].at[1][2], district |-> None,
                         attributes |-> Some([places |-> 0]), updated_at |-> 0]))

\* "db.delete(POI).where(POI.layer_id == layer.id)", then one POI for each
\* element with a position
ReplaceLayerPois(ps, cityId, layerId, elements) ==
    ElementPois(elements, 1, cityId, layerId,
                SelectSeq(ps, LAMBDA poi : poi.layer_id # layerId))

Elements(ps, layerId, elements) ==
    Len(ReplaceLayerPois(ps, 0, layerId, elements))

\* Variant: a response with an error status counts as no response
sync_osm_layer_checked(ps, city, layer, replies) ==
    LET response == TryEndpoints(replies, 1, None)
    IN  IF layer.source_config = None THEN [pois |-> ps, count |-> -1]
        ELSE IF response = None THEN [pois |-> ps, count |-> -1]
        ELSE IF response[1].kind # "ok" THEN [pois |-> ps, count |-> -1]
        ELSE IF response[1].body = None THEN [pois |-> ps, count |-> -1]
        ELSE [pois |-> ReplaceLayerPois(ps, city.id, layer.id, response[1].body[1]),
              count |-> Elements(ps, layer.id, response[1].body[1])
                            - Elements(ps, layer.id, <<>>)]

\* _sync_osm_layer: the table of points after the call and the count returned
sync_osm_layer(ps, city, layer, replies) ==
    LET response == TryEndpoints(replies, 1, None)
    IN  IF layer.source_config = None THEN [pois |-> ps, count |-> -1]
        ELSE IF response = None THEN [pois |-> ps, count |-> -1]
        ELSE IF response[1].body = None THEN [pois |-> ps, count |-> -1]
        ELSE [pois |-> ReplaceLayerPois(ps, city.id, layer.id, response[1].body[1]),
              count |-> Elements(ps, layer.id, response[1].body[1])
                            - Elements(ps, layer.id, <<>>)]

\* sync-osm: like _sync_osm_layer, with the layer looked up by slug, the
\* source type checked, and raise_for_status() called once more before json()
sync_osm(city_slug, layer_slug, replies) ==
    \E city \in {CityBySlug(city_slug)} :
        IF city = None
        THEN /\ out' = [op |-> "sync_osm", status |-> "city_not_found"]
             /\ UNCHANGED <<cities, layers, districts, pois>>
        ELSE IF LayerRowsOf(layers, city[1].id, layer_slug) = {}
        THEN /\ out' = [op |-> "sync_osm", status |-> "layer_not_found"]
             /\ UNCHANGED <<cities, layers, districts, pois>>
        ELSE
         LET layer == layers[MinOf(LayerRowsOf(layers, city[1].id, layer_slug))]
             response == TryEndpoints(replies, 1, None)
         IN  IF layer.source_type # Some("osm")
             THEN /\ out' = [op |-> "sync_osm", status |-> "not_osm"]
                  /\ UNCHANGED <<cities, layers, districts, pois>>
             ELSE IF layer.source_config = None
             THEN /\ out' = [op |-> "sync_osm", status |-> "no_query"]
                  /\ UNCHANGED <<cities, layers, districts, pois>>
             ELSE IF response = None
             THEN /\ out' = [op |-> "sync_osm", status |-> "fetch_failed"]
                  /\ UNCHANGED <<cities, layers, districts, pois>>
             ELSE IF response[1].kind # "ok" \/ response[1].body = None
             THEN /\ out' = [op |-> "sync_osm", status |-> "fetch_error"]
                  /\ UNCHANGED <<cities, layers, districts, pois>>
             ELSE /\ pois' = ReplaceLayerPois(pois, city[1].id, layer.id,
                                              response[1].body[1])
                  /\ out' = [op |-> "sync_osm", status |-> "done"]
                  /\ UNCHANGED <<cities, layers, districts>>

\* Lines 729-735: the OSM layers of the city one after the other; results
\* keeps what each call was given and what it returned
RECURSIVE SyncLayers(_, _, _, _, _, _)
SyncLayers(ls, k, city, replies, ps, results) ==
    IF k > Len(ls) THEN [pois |-> ps, results |-> results]
    ELSE IF ls[k].city_id # city.id \/ ls[k].source_type # Some("osm")
         THEN SyncLayers(ls, k + 1, city, replies, ps, results)
    ELSE LET r == sync_osm_layer(ps, city, ls[k], replies[ls[k].slug])
         IN  SyncLayers(ls, k + 1, city, replies, r.pois,
                        Append(results, [layer_id |-> ls[k].id,
                                         replies |-> replies[ls[k].slug],
                                         query |-> ls[k].source_config,
                                         count |-> r.count]))

\* Lines 697-737: the config files in sorted order
RECURSIVE SyncConfigs(_, _, _, _, _, _)
SyncConfigs(configs, k, city, skip_load, replies, db) ==
    IF k > Len(configs) THEN db
    ELSE IF configs[k].slug = None
         THEN SyncConfigs(configs, k + 1, city, skip_load, replies, db)
    ELSE IF city # None /\ configs[k].slug # city
         THEN SyncConfigs(configs, k + 1, city, skip_load, replies, db)
    ELSE LET loaded == IF skip_load THEN [cities |-> db.cities, layers |-> db.layers]
                       ELSE load_city_config(db.cities, db.layers, configs[k])
             found == CitiesWith(loaded.cities, configs[k].slug[1])
         IN  IF found = {}
             THEN SyncConfigs(configs, k + 1, city, skip_load, replies, db)
             ELSE LET r == SyncLayers(loaded.layers, 1, loaded.cities[MinOf(found)],
                                      replies, db.pois, db.results)
                  IN  SyncConfigs(configs, k + 1, city, skip_load, replies,
                                  [cities |-> loaded.cities, layers |-> loaded.layers,
                                   pois |-> r.pois, results |-> r.results])

sync_all(city, skip_load, configs, replies) ==
    \E db \in {SyncConfigs(configs, 1, city, skip_load, replies,
                           [cities |-> cities, layers |-> layers,
                            pois |-> pois, results |-> <<>>])} :
        /\ cities' = db.cities
        /\ layers' = db.layers
        /\ pois' = db.pois
        /\ out' = [op |-> "sync_all", results |-> db.results, before |-> pois]
        /\ UNCHANGED districts

\* ------------------------------------------------------------------
\* SpecCommands: the commands in any order, from empty tables
\* ------------------------------------------------------------------
KitasQuery == Some("amenity=kindergarten")

\* berlin.yaml names the layer kitas twice and has a layer without slug;
\* mannheim.yaml has an OSM layer without query; a third file has no slug
CfgBerlin ==
    [slug |-> Some("berlin"),
     layers |-> << LayerData(Some("kitas"), Some("osm"), KitasQuery),
                   LayerData(Some("parks"), Some("csv"), None),
                   LayerData(None, Some("osm"), KitasQuery),
                   LayerData(Some("kitas"), Some("osm"), KitasQuery) >>]

CfgMannheim ==
    [slug |-> Some("mannheim"),
     layers |-> << LayerData(Some("parks"), Some("osm"), Some("leisure=park")),
                   LayerData(Some("kitas"), Some("osm"), None) >>]

CfgNoSlug ==
    [slug |-> None, layers |-> << LayerData(Some("kitas"), Some("osm"), KitasQuery) >>]

ConfigFiles == <<CfgBerlin, CfgMannheim, CfgNoSlug>>

CsvFiles ==
    { << [lat |-> BadCell, lng |-> Cell(1), district |-> None],
         [lat |-> Cell(0), lng |-> Cell(1), district |-> Some("Nord")],
         [lat |-> Cell(1), lng |-> Cell(1), district |-> Some("Nord")] >> }

OsmElements == << Node(1, 3), Way(None) >>

LayerReplies ==
    { <<HttpOk(Some(OsmElements))>>,
      <<Raised, Raised>>,
      <<HttpError(Some(<<>>)), Raised>>,
      <<Raised, HttpOk(None)>> }

SomeReplies == {<<HttpOk(Some(OsmElements))>>, <<HttpError(Some(<<>>)), Raised>>}

DistrictReplies ==
    { <<HttpOk(Some(<<Relation(Some("Nord"), SqRing),
                      Relation(Some("NORD"), TriRing)>>))>>,
      <<Raised, Raised>> }

InitCommands ==
    /\ cities = <<>>
    /\ layers = <<>>
    /\ districts = <<>>
    /\ pois = <<>>
    /\ out = [op |-> "none"]
    /\ run = NoRun
    /\ sessions = <<>>

LoadCity ==
    \E config \in {CfgBerlin, CfgMannheim, CfgNoSlug} : load_city(config) /\ UNCHANGED <<run, sessions>>

ImportCsv ==
    \E city_slug \in {"berlin", "hamburg"}, layer_slug \in {"parks", "trams"},
       rows \in CsvFiles :
        /\ import_csv(city_slug, layer_slug, rows)
        /\ Len(pois') <= MaxPois /\ MaxId(pois') <= MaxPoiId
        /\ UNCHANGED <<run, sessions>>

SyncOsm ==
    \E city_slug \in {"berlin", "hamburg"},
       layer_slug \in {"kitas", "parks", "trams"}, replies \in SomeReplies :
        /\ sync_osm(city_slug, layer_slug, replies)
        /\ Len(pois') <= MaxPois /\ MaxId(pois') <= MaxPoiId
        /\ UNCHANGED <<run, sessions>>

SyncAll ==
    \E city \in {None, Some("berlin")}, skip_load \in BOOLEAN,
       replies \in SomeReplies :
        /\ sync_all(city, skip_load, ConfigFiles,
                    [slug \in {"kitas", "parks"} |-> replies])
        /\ Len(pois') <= MaxPois /\ MaxId(pois') <= MaxPoiId
        /\ UNCHANGED <<run, sessions>>

SyncBoundaries ==
    /\ \A i \in 1..Len(pois) : pois[i].updated_at < MaxStamp
    /\ \E replies \in DistrictReplies : sync_districts("berlin", replies) /\ UNCHANGED <<run, sessions>>

AssignLabels == assign_districts("berlin") /\ UNCHANGED <<run, sessions>>

NextCommands ==
    LoadCity \/ ImportCsv \/ SyncOsm \/ SyncAll \/ SyncBoundaries \/ AssignLabels

SpecCommands == InitCommands /\ [][NextCommands]_vars

\* ------------------------------------------------------------------
\* C28
\* ------------------------------------------------------------------
\* C28: after any sequence of load-city, import-csv, sync-osm, sync-all,
\* sync-districts and assign-districts, the layer of every point is a layer
\* of the point's city, and within one city no two layers have the same slug
\* and no two districts have the same slug.
C28_TablesConsistent ==
    /\ \A i \in 1..Len(pois) :
          \E h \in 1..Len(layers) :
              /\ layers[h].id = pois[i].layer_id
              /\ layers[h].city_id = pois[i].city_id
    /\ \A h, g \in 1..Len(layers) :
          h # g => /\ layers[h].id # layers[g].id
                   /\ ~(/\ layers[h].city_id = layers[g].city_id
                        /\ layers[h].slug = layers[g].slug)
    /\ \A h, g \in 1..Len(districts) :
          (h # g /\ districts[h].city_id = districts[g].city_id)
              => districts[h].slug # districts[g].slug

\* both cities are loaded and each has a layer parks, Berlin's config named
\* kitas twice, a point came from a CSV file and one from OpenStreetMap, and
\* the boundary sync merged two relations of one slug
C28_Witness ==
    /\ Len(cities) = 2
    /\ \E h, g \in 1..Len(layers) :
          /\ layers[h].slug = "parks" /\ layers[g].slug = "parks"
          /\ layers[h].city_id # layers[g].city_id
    /\ \E i, j \in 1..Len(pois) :
          /\ pois[i].layer_id # pois[j].layer_id
          /\ pois[i].attributes = None /\ pois[j].attributes # None
    /\ Len(districts) = 1 /\ districts[1].name = "NORD"

\* ------------------------------------------------------------------
\* SpecLayers: sync-all on loaded cities whose layers hold points
\* ------------------------------------------------------------------
LoadedTables ==
    LET berlin == load_city_config(<<>>, <<>>, CfgBerlin)
    IN  load_city_config(berlin.cities, berlin.layers, CfgMannheim)

\* a point of Berlin's kitas (layer 1), of Berlin's parks (2, a CSV layer),
\* of Mannheim's parks (3) and of Mannheim's kitas (4, no query)
LayerPoiPool ==
    { [city_id |-> 1, lng |-> 1, lat |-> 1, district |-> Some("Nord"),
       layer_id |-> 1, attributes |-> Some([places |-> 40])],
      [city_id |-> 1, lng |-> 3, lat |-> 1, district |-> None, layer_id |-> 2,
       attributes |-> None],
      [city_id |-> 2, lng |-> 1, lat |-> 1, district |-> None, layer_id |-> 3,
       attributes |-> None],
      [city_id |-> 2, lng |-> 6, lat |-> 1, district |-> None, layer_id |-> 4,
       attributes |-> None] }

InitLayers ==
    /\ cities = LoadedTables.cities
    /\ layers = LoadedTables.layers
    /\ districts = <<>>
    /\ \E ts \in SeqsUpTo(LayerPoiPool, MaxPois) : pois = PoiTable(ts)
    /\ out = [op |-> "none"]
    /\ run = NoRun
    /\ sessions = <<>>

AllReplies == LayerReplies \cup {<<HttpError(None), HttpError(Some(<<>>))>>}

SyncAllLayers ==
    \E city \in {None, Some("berlin"), Some("hamburg")}, skip_load \in BOOLEAN,
       kitas \in AllReplies, parks \in AllReplies :
        /\ sync_all(city, skip_load, ConfigFiles,
                    [slug \in {"kitas", "parks"} |->
                        IF slug = "kitas" THEN kitas ELSE parks])
        /\ Len(pois') <= MaxPois /\ MaxId(pois') <= MaxPoiId
        /\ UNCHANGED <<run, sessions>>

NextLayers == SyncAllLayers

SpecLayers == InitLayers /\ [][NextLayers]_vars

\* ------------------------------------------------------------------
\* C26
\* ------------------------------------------------------------------
SyncAllRan == out.op = "sync_all"

PoisOfLayer(ps, layerId) == SelectSeq(ps, LAMBDA poi : poi.layer_id = layerId)

\* C26: whenever the fetch of a layer failed (every endpoint attempt raised
\* or answered with an HTTP error status) or its body could not be parsed,
\* _sync_osm_layer returned -1 and the points the layer had are all there.
C26_Original ==
    SyncAllRan =>
        \A k \in 1..Len(out.results) :
            (EveryAttemptFailed(out.results[k].replies)
                \/ Unparseable(out.results[k].replies))
            => /\ out.results[k].count = -1
               /\ PoisOfLayer(pois, out.results[k].layer_id)
                      = PoisOfLayer(out.before, out.results[k].layer_id)

\* What the code does keep: -1 and no deletion when the layer has no query,
\* when no attempt left a response object, or when the body of the response
\* it kept is not JSON
C26_NoResponseOrNoJson ==
    SyncAllRan =>
        \A k \in 1..Len(out.results) :
            (\/ out.results[k].query = None
             \/ TryEndpoints(out.results[k].replies, 1, None) = None
             \/ Unparseable(out.results[k].replies))
            => /\ out.results[k].count = -1
               /\ PoisOfLayer(pois, out.results[k].layer_id)
                      = PoisOfLayer(out.before, out.results[k].layer_id)

\* every attempt for a layer failed, yet 0 was returned and the point the
\* layer had is gone
C26_ErrorBodyUsed ==
    /\ SyncAllRan
    /\ \E k \in 1..Len(out.results) :
          /\ EveryAttemptFailed(out.results[k].replies)
          /\ out.results[k].count = 0
          /\ PoisOfLayer(out.before, out.results[k].layer_id) # <<>>
          /\ PoisOfLayer(pois, out.results[k].layer_id) = <<>>

\* ------------------------------------------------------------------
\* C29
\* ------------------------------------------------------------------
LayerCounts(layerId) == DistrictCounts(LayerPois(layerId), 1, <<>>)

\* C29: in the comparison, a layer with at least one point has
\* minInDistrict >= 1, and its average sum(counts) / len(counts) times
\* districtsServed is totalPois: the counts add up to totalPois, there are
\* districtsServed of them, none is 0, and the rounded avgPerDistrict (in
\* tenths) is no further than 0.05 from totalPois / districtsServed.
C29_ServedOnly ==
    ComparisonOK =>
        LET items == out.body.items
            ls == CityLayers(RunCity)
        IN  \A k \in 1..Len(items) :
                items[k].totalPois >= 1 =>
                    LET counts == LayerCounts(ls[k].id)
                        off == items[k].avgPerDistrict * items[k].districtsServed
                                   - 10 * items[k].totalPois
                    IN  /\ items[k].minInDistrict >= 1
                        /\ items[k].districtsServed >= 1
                        /\ Len(counts) = items[k].districtsServed
                        /\ SumCounts(counts, 1) = items[k].totalPois
                        /\ \A n \in LayerLabels(ls[k].id) :
                              LabelCount(ls[k].id, n) >= items[k].minInDistrict
                        /\ 2 * Abs(off) <= items[k].districtsServed

\* a layer with two points under two labels, while a label that another
\* layer of the city uses has none of its points: its minimum is 1, not 0
C29_Witness ==
    /\ ComparisonOK
    /\ \E k, g \in 1..Len(out.body.items) :
          LET id == CityLayers(RunCity)[k].id
              other == CityLayers(RunCity)[g].id
          IN  /\ out.body.items[k].totalPois = 2
              /\ out.body.items[k].districtsServed = 2
              /\ out.body.items[k].minInDistrict = 1
              /\ out.body.items[k].distributionSpread = 0
              /\ \E n \in LayerLabels(other) : LabelCount(id, n) = 0

\* ------------------------------------------------------------------
\* The user_sessions table (user/models.py): a row is
\* [id, user_id, session_token, ip_address, is_active]
\* ------------------------------------------------------------------
\* Variant: the token is not looked up
ExistingNot(session_token) == {}

\* "db.select(cls).where(cls.session_token == session_token)": the rows with
\* the token; the query flushes a record added before and not yet written
Existing(session_token) ==
    {h \in 1..Len(sessions) : sessions[h].session_token = session_token}

SessionOut(op, user_id, token) ==
    [op |-> op, user_id |-> user_id, token |-> token, before |-> sessions]

create_session(user_id, session_token, ip_address) ==
    /\ IF Existing(session_token) # {}
       THEN sessions' = [sessions EXCEPT ![MinOf(Existing(session_token))] =
                            [@ EXCEPT !.user_id = user_id,
                                      !.ip_address = ip_address,
                                      !.is_active = TRUE]]
       ELSE sessions' = Append(sessions,
                               [id |-> MaxId(sessions) + 1, user_id |-> user_id,
                                session_token |-> session_token,
                                ip_address |-> ip_address, is_active |-> TRUE])
    /\ out' = SessionOut("create_session", user_id, Some(session_token))
    /\ UNCHANGED <<cities, layers, districts, pois>>

\* "if exclude_token:" is false for None and for the empty string
Truthy(text) == text # None /\ text # Some("")

deactivate_user_sessions(user_id, exclude_token) ==
    /\ sessions' = [h \in 1..Len(sessions) |->
                       IF /\ sessions[h].user_id = user_id
                          /\ sessions[h].is_active
                          /\ Truthy(exclude_token)
                                => sessions[h].session_token # exclude_token[1]
                       THEN [sessions[h] EXCEPT !.is_active = FALSE]
                       ELSE sessions[h]]
    /\ out' = SessionOut("deactivate_user_sessions", user_id, exclude_token)
    /\ UNCHANGED <<cities, layers, districts, pois>>

\* User.logout_other_sessions(current_session_token) of the user with this id
logout_other_sessions(user_id, current_session_token) ==
    deactivate_user_sessions(user_id, current_session_token)

UserIds == {1, 2}
SessionTokens == {"", "tok-a", "tok-b"}
IpAddresses == {None, Some("10.0.0.1")}

InitSessions ==
    /\ cities = <<>>
    /\ layers = <<>>
    /\ districts = <<>>
    /\ pois = <<>>
    /\ out = [op |-> "none"]
    /\ run = NoRun
    /\ sessions = <<>>

CreateSession ==
    \E user_id \in UserIds, token \in SessionTokens, ip \in IpAddresses :
        create_session(user_id, token, ip) /\ UNCHANGED run

LogoutOtherSessions ==
    \E user_id \in UserIds, token \in {None} \cup {Some(t) : t \in SessionTokens} :
        logout_other_sessions(user_id, token) /\ UNCHANGED run

NextSessions == CreateSession \/ LogoutOtherSessions

SpecSessions == InitSessions /\ [][NextSessions]_vars

\* ------------------------------------------------------------------
\* C30
\* ------------------------------------------------------------------
DeactivateRan == out.op = "deactivate_user_sessions"
CreateRan == out.op = "create_session"

\* C30: after deactivate_user_sessions(user, exclude_token) no session of
\* the user is active except one whose token is exclude_token, and the
\* sessions of every other user are as before; the table never holds two
\* records with one token, and create_session with a token the table holds
\* adds no record: that record is bound to the user given and active.
C30_Sessions ==
    /\ \A h, g \in 1..Len(sessions) :
          h # g => /\ sessions[h].session_token # sessions[g].session_token
                   /\ sessions[h].id # sessions[g].id
    /\ DeactivateRan =>
          /\ Len(sessions) = Len(out.before)
          /\ \A h \in 1..Len(sessions) :
                /\ (sessions[h].user_id = out.user_id /\ sessions[h].is_active)
                      => out.token = Some(sessions[h].session_token)
                /\ sessions[h].user_id # out.user_id => sessions[h] = out.before[h]
                /\ [sessions[h] EXCEPT !.is_active = TRUE]
                      = [out.before[h] EXCEPT !.is_active = TRUE]
    /\ CreateRan =>
          LET held == {h \in 1..Len(out.before) :
                          Some(out.before[h].session_token) = out.token}
          IN  /\ Len(sessions) = Len(out.before) + (IF held = {} THEN 1 ELSE 0)
              /\ \A h \in 1..Len(out.before) :
                    IF h \in held
                    THEN /\ sessions[h].id = out.before[h].id
                         /\ sessions[h].session_token = out.before[h].session_token
                         /\ sessions[h].user_id = out.user_id
                         /\ sessions[h].is_active
                    ELSE sessions[h] = out.before[h]

\* user 1 logged out its other sessions: the excluded one is still active,
\* another one of user 1 was active and is not any more, and an active
\* session of user 2 is untouched
C30_Witness ==
    /\ DeactivateRan /\ out.user_id = 1 /\ out.token = Some("tok-a")
    /\ \E h, g, f \in 1..Len(sessions) :
          /\ sessions[h].user_id = 1 /\ sessions[h].session_token = "tok-a"
          /\ sessions[h].is_active
          /\ sessions[g].user_id = 1 /\ out.before[g].is_active
          /\ ~sessions[g].is_active
          /\ sessions[f].user_id = 2 /\ sessions[f].is_active

====
